---- MODULE Spec2Model ----
(***************************************************************************)
(* Data acquisition, cross-source verification and persistence pipeline of *)
(* the lottery tracker (dual_source_updater.py): source adapters,          *)
(* verify_and_get_best, save_draw and the update_all cycle.                *)
(*                                                                         *)
(* Dates are day numbers; day 0 is a Monday, so weekday(d) = d % 7 with    *)
(* 0 = Monday .. 6 = Sunday, as datetime.weekday() numbers them.  The ISO  *)
(* strings the program stores compare exactly as these numbers do.         *)
(***************************************************************************)
EXTENDS Integers, Sequences, FiniteSets, TLC

(* ------------------------------ bounds --------------------------------- *)
\* number of update cycles a behaviour runs
MaxCycles == 2
\* number of events (cycles, sleeps, messages) the scheduler is followed for
MaxEvents == 12
\* number of adapter calls, over a whole behaviour, that return a draw
MaxResponses == 2
\* distinct (main, bonus) results the sources deliver
NumValues == 2

(* --------------------------- configuration ----------------------------- *)
Lotteries == {"L4L", "LA", "PB", "MM"}

\* the order in which update_all processes the lotteries
Order == <<"L4L", "LA", "PB", "MM">>

\* the adapters of every lottery, in the order update_all lists them
Adapters(k) ==
    CASE k = "L4L" -> <<"CT_RSS", "lotto.net">>
      [] k = "LA"  -> <<"Oklahoma", "Iowa", "lottoamerica.com", "lotto.net">>
      [] k = "PB"  -> <<"NY_OpenData", "CT_RSS", "Iowa">>
      [] k = "MM"  -> <<"NY_OpenData", "Iowa">>

\* weekdays on which a lottery draws (0 = Monday)
DrawDays(k) ==
    CASE k = "L4L" -> 0..6
      [] k = "LA"  -> {0, 2, 5}
      [] k = "PB"  -> {0, 2, 5}
      [] k = "MM"  -> {1, 4}

Weekday(d) == d % 7

\* the first day of a behaviour, a Monday; every cycle can fall on a new day
FirstDay == 7 * 1
LastDay == FirstDay + MaxCycles - 1

\* the dates a page fetched today can show: the latest draw is today's or
\* the one of the day before
PageDates(today) == {today - 1, today}

\* a page without a recognisable date
NoDate == 0

(* ------------------------------ values --------------------------------- *)
\* the numbers of one draw as a source lists them (not in ascending order)
RawMain(b) == <<b + 4, b, b + 1, b + 2, b + 3>>

\* the v-th result: two sets of main numbers, then further bonus numbers
MainOf(v) == RawMain(1 + ((v - 1) % 2))
BonusOf(v) == 1 + ((v - 1) \div 2)

\* Python's None, as an adapter result
None == [date |-> 0, main |-> <<>>, bonus |-> 0, source |-> "None"]

\* insert x into the ascending sequence s
RECURSIVE InsertAsc(_, _)
InsertAsc(x, s) ==
    IF s = <<>> THEN <<x>>
    ELSE IF x < Head(s) THEN <<x>> \o s
    ELSE <<Head(s)>> \o InsertAsc(x, Tail(s))

\* sorted(list) on numbers
RECURSIVE Sorted(_)
Sorted(s) == IF s = <<>> THEN <<>> ELSE InsertAsc(Head(s), Sorted(Tail(s)))

(* ---------------------------- source adapters ------------------------- *)
\* what one HTTP fetch delivers: the date shown, the ball numbers, the bonus
Pages(today) ==
    {[date |-> d, nums |-> MainOf(v), bonus |-> BonusOf(v)] :
        d \in PageDates(today) \cup {NoDate}, v \in 1..NumValues}

\* fetch_url returned None, or the page matched no pattern
FailPage == [date |-> NoDate, nums |-> <<>>, bonus |-> 0]

\* the most recent day, today included, whose weekday is in days
LastDrawDay(today, days) ==
    today - (CHOOSE o \in 0..6 :
                /\ Weekday(today - o) \in days
                /\ \A p \in 0..(o - 1) : Weekday(today - p) \notin days)

\* the date of the page when it shows one, else datetime.now()
DateOrNow(page, today) == IF page.date # NoDate THEN page.date ELSE today

\* the date of the page when it shows one, else the latest draw weekday
DateOrDrawDay(page, today, days) ==
    IF page.date # NoDate THEN page.date ELSE LastDrawDay(today, days)

SelectIn(s, S) == SelectSeq(s, LAMBDA n : n \in S)

\* the five numbers the pattern (\d{1,2})-...-(\d{1,2})\s+LB-(\d{1,2}) of
\* re.search captures in a description: the five next to the bonus
LastFive(nums) == SubSeq(nums, Len(nums) - 4, Len(nums))

fetch_l4l_ct(page, today) ==
    IF page = FailPage \/ Len(page.nums) < 5 THEN None
    ELSE [date |-> DateOrNow(page, today), main |-> Sorted(LastFive(page.nums)),
          bonus |-> page.bonus, source |-> "CT_RSS"]

fetch_l4l_lotto_net(page, today) ==
    LET numbers == page.nums \o <<page.bonus>> IN
    IF page = FailPage \/ Len(numbers) < 6 THEN None
    ELSE [date |-> DateOrNow(page, today),
          main |-> Sorted(SubSeq(numbers, 1, 5)),
          bonus |-> numbers[6], source |-> "lotto.net"]

fetch_la_oklahoma(page, today) ==
    LET numbers     == page.nums \o <<page.bonus>>
        valid_main  == SelectIn(numbers, 1..52)
        valid_bonus == SelectIn(numbers, 1..10)
    IN  IF page = FailPage \/ Len(valid_main) < 5 \/ valid_bonus = <<>> THEN None
        ELSE [date |-> DateOrDrawDay(page, today, {0, 2, 5}),
              main |-> Sorted(SubSeq(valid_main, 1, 5)),
              bonus |-> valid_bonus[Len(valid_bonus)], source |-> "Oklahoma"]

fetch_la_iowa(page, today) ==
    IF page = FailPage \/ Len(page.nums) # 5 \/ page.bonus = 0 THEN None
    ELSE [date |-> DateOrDrawDay(page, today, {0, 2, 5}),
          main |-> Sorted(page.nums), bonus |-> page.bonus, source |-> "Iowa"]

fetch_la_lottoamerica(page, today) ==
    LET numbers == page.nums \o <<page.bonus>> IN
    IF page = FailPage \/ Len(numbers) < 6 THEN None
    ELSE [date |-> LastDrawDay(today, {0, 2, 5}),
          main |-> Sorted(SubSeq(numbers, 1, 5)),
          bonus |-> numbers[6], source |-> "lottoamerica.com"]

\* the scan of fetch_la_lotto_net over all numbers of the page
RECURSIVE LottoNetScan(_, _)
LottoNetScan(all_numbers, valid_main) ==
    IF all_numbers = <<>> THEN [main |-> valid_main, bonus |-> 0]
    ELSE LET num == Head(all_numbers) IN
         IF num \in 1..52 /\ Len(valid_main) < 5
               /\ ~(\E i \in 1..Len(valid_main) : valid_main[i] = num)
         THEN LottoNetScan(Tail(all_numbers), Append(valid_main, num))
         ELSE IF num \in 1..10 /\ Len(valid_main) = 5
         THEN [main |-> valid_main, bonus |-> num]
         ELSE LottoNetScan(Tail(all_numbers), valid_main)

fetch_la_lotto_net(page, today) ==
    LET scan == LottoNetScan(page.nums \o <<page.bonus>>, <<>>) IN
    IF page = FailPage \/ Len(scan.main) # 5 \/ scan.bonus = 0 THEN None
    ELSE [date |-> LastDrawDay(today, {0, 2, 5}), main |-> Sorted(scan.main),
          bonus |-> scan.bonus, source |-> "lotto.net"]

fetch_pb_ny(page, today) ==
    LET numbers == page.nums \o <<page.bonus>> IN
    IF page = FailPage \/ page.date = NoDate \/ Len(numbers) < 6 THEN None
    ELSE [date |-> page.date, main |-> Sorted(SubSeq(numbers, 1, 5)),
          bonus |-> numbers[6], source |-> "NY_OpenData"]

fetch_pb_ct(page, today) ==
    IF page = FailPage \/ Len(page.nums) < 5 THEN None
    ELSE [date |-> DateOrNow(page, today), main |-> Sorted(LastFive(page.nums)),
          bonus |-> page.bonus, source |-> "CT_RSS"]

fetch_pb_iowa(page, today) ==
    IF page = FailPage \/ Len(page.nums) # 5 \/ page.bonus = 0 THEN None
    ELSE [date |-> LastDrawDay(today, {0, 2, 5}), main |-> Sorted(page.nums),
          bonus |-> page.bonus, source |-> "Iowa"]

fetch_mm_ny(page, today) ==
    IF page = FailPage \/ page.date = NoDate THEN None
    ELSE [date |-> page.date, main |-> Sorted(page.nums),
          bonus |-> page.bonus, source |-> "NY_OpenData"]

fetch_mm_iowa(page, today) ==
    IF page = FailPage \/ Len(page.nums) # 5 \/ page.bonus = 0 THEN None
    ELSE [date |-> LastDrawDay(today, {1, 4}), main |-> Sorted(page.nums),
          bonus |-> page.bonus, source |-> "Iowa"]

\* the i-th adapter call update_all makes for lottery k
Fetch(k, i, page, today) ==
    CASE k = "L4L" /\ i = 1 -> fetch_l4l_ct(page, today)
      [] k = "L4L" /\ i = 2 -> fetch_l4l_lotto_net(page, today)
      [] k = "LA"  /\ i = 1 -> fetch_la_oklahoma(page, today)
      [] k = "LA"  /\ i = 2 -> fetch_la_iowa(page, today)
      [] k = "LA"  /\ i = 3 -> fetch_la_lottoamerica(page, today)
      [] k = "LA"  /\ i = 4 -> fetch_la_lotto_net(page, today)
      [] k = "PB"  /\ i = 1 -> fetch_pb_ny(page, today)
      [] k = "PB"  /\ i = 2 -> fetch_pb_ct(page, today)
      [] k = "PB"  /\ i = 3 -> fetch_pb_iowa(page, today)
      [] k = "MM"  /\ i = 1 -> fetch_mm_ny(page, today)
      [] k = "MM"  /\ i = 2 -> fetch_mm_iowa(page, today)

(* ------------------------- cross verification -------------------------- *)
\* priority.get(x['source'], 99)
Rank(r) ==
    CASE r.source = "NY_OpenData" -> 1
      [] r.source = "CT_RSS"      -> 2
      [] r.source = "Iowa"        -> 3
      [] OTHER                    -> 99

RECURSIVE InsertByRank(_, _)
\* x is put behind the elements of t that have its rank
InsertByRank_BehindEquals(x, t) ==
    IF t = <<>> THEN <<x>>
    ELSE IF Rank(x) < Rank(Head(t)) THEN <<x>> \o t
    ELSE <<Head(t)>> \o InsertByRank(x, Tail(t))

\* x is put before the first element of t whose rank is not smaller
InsertByRank(x, t) ==
    IF t = <<>> THEN <<x>>
    ELSE IF Rank(x) <= Rank(Head(t)) THEN <<x>> \o t
    ELSE <<Head(t)>> \o InsertByRank(x, Tail(t))

\* the candidates are left in the order they were fetched
SortByPriority_Unsorted(s) == s

\* valid.sort(key=priority): a stable sort by rank
RECURSIVE SortByPriority(_)
SortByPriority(s) ==
    IF s = <<>> THEN <<>> ELSE InsertByRank(Head(s), SortByPriority(Tail(s)))

SameNumbers(a, b) == a.main = b.main /\ a.bonus = b.bonus

\* the candidates that the agreement loop compares with the first one
Others(valid) == 2..Len(valid)

\* a single source is not taken as verified
verify_and_get_best_NeedsTwo(results) ==
    LET valid == SelectSeq(results, LAMBDA r : r # None)
        first == valid[1]
        match == {j \in Others(valid) : SameNumbers(first, valid[j])}
        other == valid[CHOOSE j \in match : \A i \in match : j <= i]
        best  == SortByPriority(valid)[1]
    IN  IF Len(valid) <= 1
        THEN [draw |-> None, kind |-> "NONE", names |-> <<>>]
        ELSE IF match # {}
        THEN [draw |-> first, kind |-> "VERIFIED",
              names |-> <<first.source, other.source>>]
        ELSE [draw |-> best, kind |-> "MISMATCH", names |-> <<best.source>>]

\* on agreement the record returned carries the later of the two dates
verify_and_get_best_LaterDate(results) ==
    LET valid == SelectSeq(results, LAMBDA r : r # None)
        first == valid[1]
        match == {j \in Others(valid) : SameNumbers(first, valid[j])}
        other == valid[CHOOSE j \in match : \A i \in match : j <= i]
        best  == SortByPriority(valid)[1]
    IN  IF Len(valid) = 0
        THEN [draw |-> None, kind |-> "NONE", names |-> <<>>]
        ELSE IF Len(valid) = 1
        THEN [draw |-> first, kind |-> "SINGLE", names |-> <<first.source>>]
        ELSE IF match # {}
        THEN [draw |-> [first EXCEPT !.date = IF other.date > first.date
                                              THEN other.date ELSE first.date],
              kind |-> "VERIFIED",
              names |-> <<first.source, other.source>>]
        ELSE [draw |-> best, kind |-> "MISMATCH", names |-> <<best.source>>]

\* verify_and_get_best(results): the record returned and its message
verify_and_get_best(results) ==
    LET valid == SelectSeq(results, LAMBDA r : r # None)
        first == valid[1]
        match == {j \in Others(valid) : SameNumbers(first, valid[j])}
        other == valid[CHOOSE j \in match : \A i \in match : j <= i]
        best  == SortByPriority(valid)[1]
    IN  IF Len(valid) = 0
        THEN [draw |-> None, kind |-> "NONE", names |-> <<>>]
        ELSE IF Len(valid) = 1
        THEN [draw |-> first, kind |-> "SINGLE", names |-> <<first.source>>]
        ELSE IF match # {}
        THEN [draw |-> first, kind |-> "VERIFIED",
              names |-> <<first.source, other.source>>]
        ELSE [draw |-> best, kind |-> "MISMATCH", names |-> <<best.source>>]

(* ------------------------------ the store ------------------------------ *)
\* a save message that carries no date and no numbers
PlainMsg(kind) == [kind |-> kind, date |-> 0, main |-> <<>>, bonus |-> 0]

\* the check loop compares dates only
FirstHit_DateOnly(draws, draw) ==
    LET hits == {i \in 1..Len(draws) : draws[i].date = draw.date}
    IN  IF hits = {} THEN 0 ELSE CHOOSE i \in hits : \A j \in hits : i <= j

\* the index of the first stored draw on which the check loop returns
FirstHit(draws, draw) ==
    LET hits == {i \in 1..Len(draws) :
                    \/ draws[i].date = draw.date
                    \/ SameNumbers(draws[i], draw)}
    IN  IF hits = {} THEN 0 ELSE CHOOSE i \in hits : \A j \in hits : i <= j

\* the new draw takes the place of the newest stored one
InsertDraw_ReplacesHead(draws, d) == <<d>> \o Tail(draws)

\* data['draws'].insert(0, save_draw)
InsertDraw(draws, d) == <<d>> \o draws

\* a file that open(file_path, 'w') has just truncated
EmptyFile == [draws |-> <<>>, lastUpdated |-> 0 - 1]

\* a file that holds only the first n draws of a dump that did not finish
PartialFile(data, n) == [draws |-> SubSeq(data.draws, 1, n), lastUpdated |-> 0 - 1]

\* json.load(f) succeeds: the file holds one complete JSON document
Readable(data) == data.lastUpdated >= 0

\* the file is rewritten, with a new lastUpdated, also when nothing is saved
save_draw_AlwaysWrites(data, draw, now) ==
    LET hit  == FirstHit(data.draws, draw)
        kept == [date |-> draw.date, main |-> draw.main, bonus |-> draw.bonus]
        same == [draws |-> data.draws, lastUpdated |-> now]
    IN  IF draw = None
        THEN [saved |-> FALSE, msg |-> PlainMsg("NoDraw"), data |-> same]
        ELSE IF ~Readable(data)
        THEN [saved |-> FALSE, msg |-> PlainMsg("SaveError"), data |-> data]
        ELSE IF hit # 0 /\ data.draws[hit].date = draw.date
        THEN [saved |-> FALSE, data |-> same,
              msg |-> [kind |-> "AlreadyHave", date |-> draw.date,
                       main |-> <<>>, bonus |-> 0]]
        ELSE IF hit # 0
        THEN [saved |-> FALSE, msg |-> PlainMsg("DuplicateNumbers"),
              data |-> same]
        ELSE [saved |-> TRUE,
              msg |-> [kind |-> "SAVED", date |-> draw.date,
                       main |-> draw.main, bonus |-> draw.bonus],
              data |-> [draws |-> InsertDraw(data.draws, kept),
                        lastUpdated |-> now]]

\* the check loop tests the numbers before the date
save_draw_NumbersFirst(data, draw, now) ==
    LET hit  == FirstHit(data.draws, draw)
        kept == [date |-> draw.date, main |-> draw.main, bonus |-> draw.bonus]
    IN  IF draw = None
        THEN [saved |-> FALSE, msg |-> PlainMsg("NoDraw"), data |-> data]
        ELSE IF ~Readable(data)
        THEN [saved |-> FALSE, msg |-> PlainMsg("SaveError"), data |-> data]
        ELSE IF hit # 0 /\ SameNumbers(data.draws[hit], draw)
        THEN [saved |-> FALSE, msg |-> PlainMsg("DuplicateNumbers"),
              data |-> data]
        ELSE IF hit # 0
        THEN [saved |-> FALSE, data |-> data,
              msg |-> [kind |-> "AlreadyHave", date |-> draw.date,
                       main |-> <<>>, bonus |-> 0]]
        ELSE [saved |-> TRUE,
              msg |-> [kind |-> "SAVED", date |-> draw.date,
                       main |-> draw.main, bonus |-> draw.bonus],
              data |-> [draws |-> InsertDraw(data.draws, kept),
                        lastUpdated |-> now]]

\* an error while the file is read is not caught: it leaves save_draw
save_draw_Raises(data, draw, now) ==
    LET hit  == FirstHit(data.draws, draw)
        kept == [date |-> draw.date, main |-> draw.main, bonus |-> draw.bonus]
    IN  IF draw = None
        THEN [saved |-> FALSE, msg |-> PlainMsg("NoDraw"), data |-> data]
        ELSE IF ~Readable(data)
        THEN [saved |-> FALSE, msg |-> PlainMsg("Raised"), data |-> data]
        ELSE IF hit # 0 /\ data.draws[hit].date = draw.date
        THEN [saved |-> FALSE, data |-> data,
              msg |-> [kind |-> "AlreadyHave", date |-> draw.date,
                       main |-> <<>>, bonus |-> 0]]
        ELSE IF hit # 0
        THEN [saved |-> FALSE, msg |-> PlainMsg("DuplicateNumbers"),
              data |-> data]
        ELSE [saved |-> TRUE,
              msg |-> [kind |-> "SAVED", date |-> draw.date,
                       main |-> draw.main, bonus |-> draw.bonus],
              data |-> [draws |-> InsertDraw(data.draws, kept),
                        lastUpdated |-> now]]

\* save_draw writes an empty store in place of a file it cannot load
save_draw_ResetsFile(data, draw, now) ==
    LET hit  == FirstHit(data.draws, draw)
        kept == [date |-> draw.date, main |-> draw.main, bonus |-> draw.bonus]
    IN  IF draw = None
        THEN [saved |-> FALSE, msg |-> PlainMsg("NoDraw"), data |-> data]
        ELSE IF ~Readable(data)
        THEN [saved |-> FALSE, msg |-> PlainMsg("SaveError"),
              data |-> [draws |-> <<>>, lastUpdated |-> now]]
        ELSE IF hit # 0 /\ data.draws[hit].date = draw.date
        THEN [saved |-> FALSE, data |-> data,
              msg |-> [kind |-> "AlreadyHave", date |-> draw.date,
                       main |-> <<>>, bonus |-> 0]]
        ELSE IF hit # 0
        THEN [saved |-> FALSE, msg |-> PlainMsg("DuplicateNumbers"),
              data |-> data]
        ELSE [saved |-> TRUE,
              msg |-> [kind |-> "SAVED", date |-> draw.date,
                       main |-> draw.main, bonus |-> draw.bonus],
              data |-> [draws |-> InsertDraw(data.draws, kept),
                        lastUpdated |-> now]]

\* save_draw(lottery_key, draw, verification_msg) on the file content data
save_draw(data, draw, now) ==
    LET hit  == FirstHit(data.draws, draw)
        kept == [date |-> draw.date, main |-> draw.main, bonus |-> draw.bonus]
    IN  IF draw = None
        THEN [saved |-> FALSE, msg |-> PlainMsg("NoDraw"), data |-> data]
        ELSE IF ~Readable(data)
        THEN [saved |-> FALSE, msg |-> PlainMsg("SaveError"), data |-> data]
        ELSE IF hit # 0 /\ data.draws[hit].date = draw.date
        THEN [saved |-> FALSE, data |-> data,
              msg |-> [kind |-> "AlreadyHave", date |-> draw.date,
                       main |-> <<>>, bonus |-> 0]]
        ELSE IF hit # 0
        THEN [saved |-> FALSE, msg |-> PlainMsg("DuplicateNumbers"),
              data |-> data]
        ELSE [saved |-> TRUE,
              msg |-> [kind |-> "SAVED", date |-> draw.date,
                       main |-> draw.main, bonus |-> draw.bonus],
              data |-> [draws |-> InsertDraw(data.draws, kept),
                        lastUpdated |-> now]]

\* the new draw is put behind the stored ones
update_lottery_data_AppendsLast(data, new_draw, now) ==
    LET hit == FirstHit(data.draws, new_draw)
    IN  IF new_draw = None
        THEN [saved |-> FALSE, msg |-> PlainMsg("NoData"), data |-> data]
        ELSE IF ~Readable(data)
        THEN [saved |-> FALSE, msg |-> PlainMsg("Error"), data |-> data]
        ELSE IF hit # 0 /\ data.draws[hit].date = new_draw.date
        THEN [saved |-> FALSE, data |-> data,
              msg |-> [kind |-> "AlreadyHave", date |-> new_draw.date,
                       main |-> <<>>, bonus |-> 0]]
        ELSE IF hit # 0
        THEN [saved |-> FALSE, msg |-> PlainMsg("DuplicateNumbers"),
              data |-> data]
        ELSE [saved |-> TRUE,
              msg |-> [kind |-> "Added", date |-> new_draw.date,
                       main |-> <<>>, bonus |-> 0],
              data |-> [draws |-> Append(data.draws, new_draw),
                        lastUpdated |-> now]]

\* updater.update_lottery_data(lottery_key, new_draw) on the file content
\* data; the record it is given is stored as it is
update_lottery_data(data, new_draw, now) ==
    LET hit == FirstHit(data.draws, new_draw)
    IN  IF new_draw = None
        THEN [saved |-> FALSE, msg |-> PlainMsg("NoData"), data |-> data]
        ELSE IF ~Readable(data)
        THEN [saved |-> FALSE, msg |-> PlainMsg("Error"), data |-> data]
        ELSE IF hit # 0 /\ data.draws[hit].date = new_draw.date
        THEN [saved |-> FALSE, data |-> data,
              msg |-> [kind |-> "AlreadyHave", date |-> new_draw.date,
                       main |-> <<>>, bonus |-> 0]]
        ELSE IF hit # 0
        THEN [saved |-> FALSE, msg |-> PlainMsg("DuplicateNumbers"),
              data |-> data]
        ELSE [saved |-> TRUE,
              msg |-> [kind |-> "Added", date |-> new_draw.date,
                       main |-> <<>>, bonus |-> 0],
              data |-> [draws |-> InsertDraw(data.draws, new_draw),
                        lastUpdated |-> now]]

(* ------------------------------ jackpots ------------------------------- *)
\* the lotteries whose jackpot fetch_jackpots looks up on the web
Scraped == {"LA", "PB", "MM"}

\* times of the jackpot file are counted in half minutes
PerMinute == 2
PerDay == 24 * 60 * PerMinute

\* what one jackpot page shows: the amount with its unit, and the cash
\* value in millions (0 when the page shows none)
JackpotPages ==
    {[amount |-> a, unit |-> u, cash |-> c] :
        a \in 1..NumValues, u \in {"Million", "Billion"}, c \in {0, 3}}

\* fetch_url returned None
NoPage == [amount |-> 0, unit |-> "None", cash |-> 0]

\* The 'amount' of an entry is a text such as "$12.51M"; it is kept as the
\* number of hundredths of a million it names (1251), and L4L's
\* "$7,000/week for life" as 7000.

\* a lottery fetch_jackpots has no entry for
NoKey == [amount |-> 0 - 1, cashValue |-> 0 - 1, schedule |-> "None"]

\* a lottery jackpots.json has no entry for
NoSnapshot ==
    [amount |-> 0 - 1, cashValue |-> 0 - 1, schedule |-> "None",
     nextDraw |-> 0 - 1]

\* the 'schedule' text of every lottery
ScheduleText(k) ==
    CASE k = "L4L" -> "Daily at 9:38 PM CT"
      [] k = "LA"  -> "Mon/Wed/Sat at 10:00 PM CT"
      [] k = "PB"  -> "Mon/Wed/Sat at 9:59 PM CT"
      [] k = "MM"  -> "Tue/Fri at 10:00 PM CT"

\* the amount in millions: if 'billion' in match.group(2).lower()
Millions(page) ==
    IF page.unit = "Billion" THEN page.amount * 1000 ELSE page.amount

\* the first source of a lottery: Texas Lottery, Virginia Lottery,
\* powerball.com/lotto-america.  The patterns for MM and LA match an amount
\* in millions only.
PrimaryJackpot(k, page) ==
    IF page = NoPage \/ (k \in {"MM", "LA"} /\ page.unit # "Million")
    THEN NoKey
    ELSE LET amount == IF k = "PB" THEN Millions(page) ELSE page.amount
             rate == IF k = "MM" THEN 457000 ELSE 450000
         IN  [amount |-> 100 * amount,
              cashValue |-> IF page.cash # 0 THEN page.cash * 1000000
                            ELSE amount * rate,
              schedule |-> ScheduleText(k)]

\* the second source of a lottery: powerball.com, megamillions.com, Iowa
\* Lottery.  The Iowa pattern reads the number and ignores its unit.
FallbackJackpot(k, page) ==
    IF page = NoPage THEN NoKey
    ELSE LET amount == IF k = "LA" THEN page.amount ELSE Millions(page)
             rate == IF k = "PB" THEN 450000 ELSE 457000
         IN  [amount |-> 100 * amount, cashValue |-> amount * rate,
              schedule |-> ScheduleText(k)]

\* fetch_jackpots, given what the two sources of every lottery answer
fetch_jackpots(answers) ==
    [k \in Lotteries |->
        IF k = "L4L"
        THEN [amount |-> 7000, cashValue |-> 5750000,
              schedule |-> ScheduleText(k)]
        ELSE IF PrimaryJackpot(k, answers[k].primary) # NoKey
        THEN PrimaryJackpot(k, answers[k].primary)
        ELSE FallbackJackpot(k, answers[k].fallback)]

\* days, hour and minute of the draws, as save_jackpots lists them
JackpotDays(k) ==
    CASE k = "L4L" -> 0..6
      [] k = "LA"  -> {0, 2, 5}
      [] k = "PB"  -> {0, 2, 5}
      [] k = "MM"  -> {1, 4}

DrawMinute(k) ==
    CASE k = "L4L" -> 21 * 60 + 38
      [] k = "LA"  -> 22 * 60
      [] k = "PB"  -> 21 * 60 + 59
      [] k = "MM"  -> 22 * 60

DayOf(t) == t \div PerDay

\* check.replace(hour=hour, minute=minute, second=0, microsecond=0)
DrawTime(k, day) == day * PerDay + DrawMinute(k) * PerMinute

\* the offsets at which the loop of save_jackpots would stop
DrawOffsets(k, t) ==
    {o \in 0..7 : /\ Weekday(DayOf(t) + o) \in JackpotDays(k)
                  /\ DrawTime(k, DayOf(t) + o) > t}

\* for offset in range(8): ... data[key]['nextDraw'] = ...; break
NextDraw(k, t, old) ==
    IF DrawOffsets(k, t) = {} THEN old
    ELSE DrawTime(k, DayOf(t) + CHOOSE o \in DrawOffsets(k, t) :
                                    \A q \in DrawOffsets(k, t) : o <= q)

\* jackpots.json that cannot be loaded: missing, empty or cut short
NoJackpotFile ==
    [readable |-> FALSE, entries |-> [k \in Lotteries |-> NoSnapshot],
     lastUpdated |-> 0 - 1]

\* save_jackpots writes the entry of every lottery, fetched or not
save_jackpots_WritesAll(data, fetched, t) ==
    IF ~data.readable THEN [ok |-> FALSE, data |-> data]
    ELSE [ok |-> TRUE,
          data |-> [readable |-> TRUE,
                    entries |-> [k \in Lotteries |->
                        [amount |-> fetched[k].amount,
                         cashValue |-> fetched[k].cashValue,
                         schedule |-> fetched[k].schedule,
                         nextDraw |-> NextDraw(k, t, data.entries[k].nextDraw)]],
                    lastUpdated |-> t]]

\* save_jackpots(jackpots) at the time t
save_jackpots(data, fetched, t) ==
    IF ~data.readable THEN [ok |-> FALSE, data |-> data]
    ELSE [ok |-> TRUE,
          data |-> [readable |-> TRUE,
                    entries |-> [k \in Lotteries |->
                        IF fetched[k] = NoKey THEN data.entries[k]
                        ELSE [amount |-> fetched[k].amount,
                              cashValue |-> fetched[k].cashValue,
                              schedule |-> fetched[k].schedule,
                              nextDraw |-> NextDraw(k, t,
                                              data.entries[k].nextDraw)]],
                    lastUpdated |-> t]]

\* now.hour * 60 + now.minute
MinuteOf(t) == (t % PerDay) \div PerMinute

\* the offsets at which the loop of get_next_draw_date would return
DateOffsets(days, draw_time, t) ==
    {o \in 0..7 : /\ (Weekday(DayOf(t)) + o) % 7 \in days
                  /\ ~(o = 0 /\ MinuteOf(t) >= draw_time)}

\* today's draw is still returned in the minute of the draw
get_next_draw_date_InDrawMinute(days, draw_time, t) ==
    LET offsets == {o \in 0..7 : /\ (Weekday(DayOf(t)) + o) % 7 \in days
                                 /\ ~(o = 0 /\ MinuteOf(t) > draw_time)}
    IN  IF offsets = {} THEN t + PerDay
        ELSE (DayOf(t) + CHOOSE o \in offsets : \A q \in offsets : o <= q)
                 * PerDay + draw_time * PerMinute

\* get_jackpots.get_next_draw_date(days_of_week, draw_hour, draw_minute) at
\* the time t, with draw_time = draw_hour * 60 + draw_minute
get_next_draw_date(days, draw_time, t) ==
    LET offsets == DateOffsets(days, draw_time, t)
    IN  IF offsets = {} THEN t + PerDay
        ELSE (DayOf(t) + CHOOSE o \in offsets : \A q \in offsets : o <= q)
                 * PerDay + draw_time * PerMinute

\* the amounts get_jackpots.py writes when its sources do not answer
ManualAmount(k) ==
    CASE k = "L4L" -> 7000
      [] k = "LA"  -> 285
      [] k = "PB"  -> 14900
      [] k = "MM"  -> 28400

\* the cash values get_jackpots.py writes
ManualCash(k) ==
    CASE k = "L4L" -> 5750000
      [] k = "LA"  -> 1425000
      [] k = "PB"  -> 69900000
      [] k = "MM"  -> 137800000

\* what get_jackpots.py writes to jackpots.json at the time t, given the
\* amounts it has got; its entries have no 'schedule'
get_jackpots_file(amounts, t) ==
    [readable |-> TRUE,
     entries |-> [k \in Lotteries |->
                    [amount |-> amounts[k], cashValue |-> ManualCash(k),
                     schedule |-> "None",
                     nextDraw |-> get_next_draw_date(JackpotDays(k),
                                                     DrawMinute(k), t)]],
     lastUpdated |-> t]

(* ------------------------------- state --------------------------------- *)
VARIABLES
    store,        \* per lottery, the persisted file: draws and lastUpdated
    today,        \* the day datetime.now() falls on
    clock,        \* the instant datetime.now() returns, one tick per step
    pc,           \* where update_all stands: idle, a lottery, or jackpots
    cycle,        \* number of cycles started
    lottery,      \* the lottery whose adapter results were verified last
    candidates,   \* the list handed to verify_and_get_best
    verdict,      \* what verify_and_get_best returned for it
    results,      \* the results update_all has collected in this cycle
    prev,         \* the results of the cycle before
    responses,    \* adapter calls that got a page so far
    live,         \* the lottery whose sources can be reached
    jackpotsUpdated,  \* lastUpdated of the jackpot file
    evaluated,    \* whether the last finished cycle ran the evaluation
    runs,         \* the save_draw calls in progress, one per update run
    sched,        \* run_scheduler: where it stands and what it has done
    call,         \* one adapter call: the response, the result, the requests
    jackpotFile,  \* jackpots.json: per lottery the snapshot, and lastUpdated
    jackpots,     \* fetch_jackpots: what the sources answered, what it returned
    now,          \* datetime.now() in half minutes, for the next draw
    jsaved,       \* what the last save_jackpots call returned
    http,         \* the requests of one cycle of the scheduler, one at a time
    hunter        \* run_continuous: its counter and what it has done

\* the variables of the update cycle
cycleVars == <<store, today, clock, pc, cycle, lottery, candidates, verdict,
               results, prev, responses, live, jackpotsUpdated, evaluated>>

\* the variables of the other parts of the program
otherVars == <<runs, sched, call>>

\* the variables of the jackpot update
moreVars == <<jackpotFile, jackpots, now, jsaved, http, hunter>>

vars == <<store, today, clock, pc, cycle, lottery, candidates, verdict,
          results, prev, responses, live, jackpotsUpdated, evaluated,
          runs, sched, call, jackpotFile, jackpots, now, jsaved, http,
          hunter>>

\* a lottery update_all has not reached yet in this cycle
Absent ==
    [done |-> FALSE, cands |-> <<>>, draw |-> None, kind |-> "NONE",
     names |-> <<>>, saved |-> FALSE, msg |-> PlainMsg("NoDraw"),
     before |-> [draws |-> <<>>, lastUpdated |-> 0]]

\* the update runs that can work on the store files at the same time: the
\* scheduled cycle and a manual /api/refresh
Procs == {"scheduled", "manual"}

\* an update run that is not inside save_draw
NotRunning ==
    [pc |-> "done", draw |-> None, data |-> [draws |-> <<>>, lastUpdated |-> 0],
     saved |-> FALSE, msg |-> "NoDraw"]

\* run_scheduler before its first statement
NotStarted == [pc |-> "start", sub |-> "none", trace |-> <<>>, exit |-> "none"]

\* no adapter has been called
NoCall == [i |-> 0, response |-> FailPage, result |-> None, requests |-> 0]

\* the parts of the program that are not running
\* jackpots.json as an earlier cycle left it
OldSnapshot(k) ==
    [amount |-> 9900, cashValue |-> 99 * 450000, schedule |-> ScheduleText(k),
     nextDraw |-> DrawTime(k, 0)]

InitJackpotFile ==
    [readable |-> TRUE, entries |-> [k \in Lotteries |-> OldSnapshot(k)],
     lastUpdated |-> 0]

\* fetch_jackpots has not been called
NoAnswers ==
    [k \in Lotteries |-> [primary |-> NoPage, fallback |-> NoPage]]

NotFetched ==
    [answers |-> NoAnswers, fetched |-> [k \in Lotteries |-> NoKey],
     before |-> InitJackpotFile]

\* the jackpot update is not running
JackpotsIdle ==
    /\ jackpotFile = InitJackpotFile
    /\ jackpots = NotFetched
    /\ now = 0
    /\ jsaved = "none"

\* no cycle of the scheduler is followed request by request
NoRequest ==
    [pc |-> "none", at |-> 0, mode |-> "none", got |-> 0, errors |-> 0,
     cycles |-> 0]

\* run_continuous has not been called
NotCalled ==
    [pc |-> "none", max_runs |-> 0, run_count |-> 0, trace |-> <<>>,
     exit |-> "none"]

\* the scheduler's requests and the jackpot hunter are not looked at
RestIdle ==
    /\ http = NoRequest
    /\ hunter = NotCalled

MoreIdle == JackpotsIdle /\ RestIdle

OthersIdle ==
    /\ runs = [p \in Procs |-> NotRunning]
    /\ sched = NotStarted
    /\ call = NoCall
    /\ MoreIdle

\* the two newest draws every store holds at the start
InitDates(k) ==
    CASE k = "L4L" -> <<5, 4>>
      [] k = "LA"  -> <<5, 2>>
      [] k = "PB"  -> <<5, 2>>
      [] k = "MM"  -> <<4, 1>>

InitStore(k) ==
    [draws |-> << [date |-> InitDates(k)[1], main |-> <<11, 22, 33, 44, 48>>,
                   bonus |-> 3],
                  [date |-> InitDates(k)[2], main |-> <<12, 23, 34, 45, 47>>,
                   bonus |-> 4] >>,
     lastUpdated |-> 0]

Init ==
    /\ store = [k \in Lotteries |-> InitStore(k)]
    /\ today = FirstDay
    /\ clock = 1
    /\ pc = "idle"
    /\ cycle = 0
    /\ lottery = "L4L"
    /\ candidates = <<>>
    /\ verdict = verify_and_get_best(<<>>)
    /\ results = [k \in Lotteries |-> Absent]
    /\ prev = [k \in Lotteries |-> Absent]
    /\ responses = 0
    /\ live \in Lotteries
    /\ jackpotsUpdated = 0
    /\ evaluated = FALSE
    /\ OthersIdle

\* the step of update_all that follows the one for lottery k
After(k) ==
    CASE k = "L4L" -> "LA"
      [] k = "LA"  -> "PB"
      [] k = "PB"  -> "MM"
      [] k = "MM"  -> "jackpots"

\* the scheduler (or an operator) starts update_all; since the cycle
\* before, the calendar day has changed at most once
StartCycle ==
    /\ pc = "idle"
    /\ cycle < MaxCycles
    /\ today' \in {d \in {today, today + 1} : d <= LastDay}
    /\ cycle' = cycle + 1
    /\ pc' = Order[1]
    /\ prev' = results
    /\ results' = [k \in Lotteries |-> Absent]
    /\ clock' = clock + 1
    /\ UNCHANGED <<store, lottery, candidates, verdict, responses, live,
                   jackpotsUpdated, evaluated>>
    /\ UNCHANGED otherVars
    /\ UNCHANGED moreVars

\* update_all calls save_draw outside any try: an exception that came out
\* of save_draw would end update_all there, without results
Escapes(s) == s.msg.kind = "Raised"

\* one lottery's block of update_all: fetch every source, verify, save
UpdateLottery(k) ==
    /\ pc = k
    /\ \E S \in SUBSET (1..Len(Adapters(k))) :
          /\ k # live => S = {}
          /\ Cardinality(S) <= MaxResponses - responses
          /\ \E pg \in [S -> Pages(today)] :
             \E fetched \in {[i \in 1..Len(Adapters(k)) |->
                                  Fetch(k, i, IF i \in S THEN pg[i]
                                              ELSE FailPage, today)]} :
             \E v \in {verify_and_get_best(fetched)} :
             \E s \in {save_draw(store[k], v.draw, clock)} :
                    /\ candidates' = fetched
                    /\ verdict' = v
                    /\ store' = [store EXCEPT ![k] = s.data]
                    /\ results' =
                          IF Escapes(s) THEN results
                          ELSE [results EXCEPT ![k] =
                                  [done |-> TRUE, cands |-> fetched,
                                   draw |-> v.draw, kind |-> v.kind,
                                   names |-> v.names, saved |-> s.saved,
                                   msg |-> s.msg, before |-> store[k]]]
                    /\ responses' = responses + Cardinality(S)
                    /\ pc' = IF Escapes(s) THEN "idle" ELSE After(k)
    /\ lottery' = k
    /\ clock' = clock + 1
    /\ UNCHANGED <<today, cycle, prev, live, jackpotsUpdated, evaluated>>
    /\ UNCHANGED otherVars
    /\ UNCHANGED moreVars

\* the predictions are checked after every cycle
any_saved_Always(res) == TRUE

\* any(r.get('saved') for r in results.values())
any_saved(res) == \E k \in Lotteries : res[k].saved

\* the end of update_all: jackpots are fetched and saved, and the
\* predictions are evaluated when some lottery got a new draw
UpdateJackpots ==
    /\ pc = "jackpots"
    /\ jackpotsUpdated' = clock
    /\ evaluated' = any_saved(results)
    /\ pc' = "idle"
    /\ clock' = clock + 1
    /\ UNCHANGED <<store, today, cycle, lottery, candidates, verdict, results,
                   prev, responses, live>>
    /\ UNCHANGED otherVars
    /\ UNCHANGED moreVars

Next ==
    \/ StartCycle
    \/ \E k \in Lotteries : UpdateLottery(k)
    \/ UpdateJackpots

Spec == Init /\ [][Next]_vars

(* ------------- one cycle in detail, with an unreadable store ----------- *)
\* jackpots = fetch_jackpots(); save_jackpots(jackpots)
SaveJackpots ==
    /\ pc = "jackpots"
    /\ jackpotsUpdated' = clock
    /\ pc' = "evaluate"
    /\ clock' = clock + 1
    /\ UNCHANGED <<store, today, cycle, lottery, candidates, verdict, results,
                   prev, responses, live, evaluated>>
    /\ UNCHANGED otherVars
    /\ UNCHANGED moreVars

\* if any_saved: evaluate_predictions(), then update_all returns results
Evaluate ==
    /\ pc = "evaluate"
    /\ evaluated' = any_saved(results)
    /\ pc' = "idle"
    /\ clock' = clock + 1
    /\ UNCHANGED <<store, today, cycle, lottery, candidates, verdict, results,
                   prev, responses, live, jackpotsUpdated>>
    /\ UNCHANGED otherVars
    /\ UNCHANGED moreVars

\* a store that also holds, from a week before, a result that a source can
\* deliver again
StoreWithResult(k) ==
    [InitStore(k) EXCEPT
        !.draws = @ \o << [date |-> InitDates(k)[2] - 7,
                           main |-> Sorted(MainOf(1)), bonus |-> BonusOf(1)] >>]

\* the last cycle of a behaviour is about to start; the store file of one
\* lottery may be unreadable, and the latest stored draws are recent enough
\* for a source to deliver one of them again
InitOneCycle ==
    /\ live \in Lotteries
    /\ \E f \in {InitStore(live), EmptyFile, StoreWithResult(live)} :
          store = [k \in Lotteries |-> IF k = live THEN f ELSE InitStore(k)]
    /\ today = FirstDay - 2
    /\ clock = 1
    /\ pc = "idle"
    /\ cycle = MaxCycles - 1
    /\ lottery = "L4L"
    /\ candidates = <<>>
    /\ verdict = verify_and_get_best(<<>>)
    /\ results = [k \in Lotteries |-> Absent]
    /\ prev = [k \in Lotteries |-> Absent]
    /\ responses = 0
    /\ jackpotsUpdated = 0
    /\ evaluated = FALSE
    /\ OthersIdle

NextOneCycle ==
    \/ StartCycle
    \/ \E k \in Lotteries : UpdateLottery(k)
    \/ SaveJackpots
    \/ Evaluate

SpecOneCycle == InitOneCycle /\ [][NextOneCycle]_vars

(* ------------- verify_and_get_best on its own inputs ------------------- *)
\* the results in the candidate lists verify_and_get_best is applied to
VerifyValues == 1..(NumValues + 1)

\* what the i-th adapter of lottery k can hand to verify_and_get_best
CandidatesOf(k, i) ==
    {None} \cup
    {[date |-> d, main |-> Sorted(MainOf(v)), bonus |-> BonusOf(v),
      source |-> Adapters(k)[i]] : d \in PageDates(FirstDay), v \in VerifyValues}

\* the lists of the first n adapter results of lottery k
RECURSIVE ListsUpTo(_, _)
ListsUpTo(k, n) ==
    IF n = 0 THEN {<<>>}
    ELSE {Append(l, c) : l \in ListsUpTo(k, n - 1), c \in CandidatesOf(k, n)}

\* the lists update_all can pass for lottery k
CandidateLists(k) == ListsUpTo(k, Len(Adapters(k)))

InitVerify ==
    /\ store = [k \in Lotteries |-> InitStore(k)]
    /\ today = FirstDay
    /\ clock = 1
    /\ pc = "verify"
    /\ cycle = 0
    /\ lottery \in Lotteries
    /\ candidates \in CandidateLists(lottery)
    /\ verdict = verify_and_get_best(<<>>)
    /\ results = [k \in Lotteries |-> Absent]
    /\ prev = [k \in Lotteries |-> Absent]
    /\ responses = 0
    /\ live \in Lotteries
    /\ jackpotsUpdated = 0
    /\ evaluated = FALSE
    /\ OthersIdle

\* la_draw, la_msg = verify_and_get_best([la_ok, la_iowa, ...])
VerifyCall ==
    /\ pc = "verify"
    /\ verdict' = verify_and_get_best(candidates)
    /\ pc' = "verified"
    /\ UNCHANGED <<store, today, clock, cycle, lottery, candidates, results,
                   prev, responses, live, jackpotsUpdated, evaluated>>
    /\ UNCHANGED otherVars
    /\ UNCHANGED moreVars

NextVerify == VerifyCall

SpecVerify == InitVerify /\ [][NextVerify]_vars

(* --------------- save_draw step by step, in overlapping runs ----------- *)
\* the entry save_draw writes for a draw: the source key is removed
Kept(draw) == [date |-> draw.date, main |-> draw.main, bonus |-> draw.bonus]

\* the draws an update run can come to save_draw with
RunDraws ==
    {[date |-> d, main |-> Sorted(MainOf(v)), bonus |-> BonusOf(v),
      source |-> "NY_OpenData"] : d \in PageDates(FirstDay), v \in 1..NumValues}

\* a run that has entered save_draw (or update_lottery_data) with a draw
Entered(d) ==
    [pc |-> "load", draw |-> d, data |-> [draws |-> <<>>, lastUpdated |-> 0],
     saved |-> FALSE, msg |-> "Running"]

\* the update cycle itself stands still while save_draw is looked at
CycleAtRest ==
    /\ store = [k \in Lotteries |-> InitStore(k)]
    /\ today = FirstDay
    /\ clock = 1
    /\ cycle = 0
    /\ candidates = <<>>
    /\ verdict = verify_and_get_best(<<>>)
    /\ results = [k \in Lotteries |-> Absent]
    /\ prev = [k \in Lotteries |-> Absent]
    /\ responses = 0
    /\ live \in Lotteries
    /\ lottery = live
    /\ jackpotsUpdated = 0
    /\ evaluated = FALSE

\* the run is over: save_draw has returned (saved, msg)
Return(p, saved, msg) ==
    runs' = [runs EXCEPT ![p].pc = "done", ![p].saved = saved, ![p].msg = msg]

\* with open(file_path, 'r') as f: data = json.load(f)
Load(p) ==
    /\ runs[p].pc = "load"
    /\ IF Readable(store[lottery])
       THEN runs' = [runs EXCEPT ![p].pc = "check", ![p].data = store[lottery]]
       ELSE Return(p, FALSE, "SaveError")
    /\ clock' = clock + 1
    /\ UNCHANGED <<store, today, pc, cycle, lottery, candidates, verdict,
                   results, prev, responses, live, jackpotsUpdated, evaluated,
                   sched, call>>
    /\ UNCHANGED moreVars

\* the loop over data['draws'] that looks for the date or the numbers
Check(p) ==
    /\ runs[p].pc = "check"
    /\ LET hit == FirstHit(runs[p].data.draws, runs[p].draw) IN
       IF hit = 0 THEN runs' = [runs EXCEPT ![p].pc = "insert"]
       ELSE IF runs[p].data.draws[hit].date = runs[p].draw.date
       THEN Return(p, FALSE, "AlreadyHave")
       ELSE Return(p, FALSE, "DuplicateNumbers")
    /\ clock' = clock + 1
    /\ UNCHANGED <<store, today, pc, cycle, lottery, candidates, verdict,
                   results, prev, responses, live, jackpotsUpdated, evaluated,
                   sched, call>>
    /\ UNCHANGED moreVars

\* data['draws'].insert(0, save_draw); data['lastUpdated'] = now
Insert(p) ==
    /\ runs[p].pc = "insert"
    /\ runs' = [runs EXCEPT ![p].pc = "open",
                  ![p].data = [draws |-> InsertDraw(runs[p].data.draws,
                                                    Kept(runs[p].draw)),
                               lastUpdated |-> clock]]
    /\ clock' = clock + 1
    /\ UNCHANGED <<store, today, pc, cycle, lottery, candidates, verdict,
                   results, prev, responses, live, jackpotsUpdated, evaluated,
                   sched, call>>
    /\ UNCHANGED moreVars

\* open(file_path, 'w'): the file is truncated before anything is written
OpenWrite(p) ==
    /\ runs[p].pc = "open"
    /\ store' = [store EXCEPT ![lottery] = EmptyFile]
    /\ runs' = [runs EXCEPT ![p].pc = "dump"]
    /\ clock' = clock + 1
    /\ UNCHANGED <<today, pc, cycle, lottery, candidates, verdict,
                   results, prev, responses, live, jackpotsUpdated, evaluated,
                   sched, call>>
    /\ UNCHANGED moreVars

\* json.dump(data, f) and the close of the file: the whole document is in
\* the file, and save_draw returns True
Dump(p) ==
    /\ runs[p].pc = "dump"
    /\ store' = [store EXCEPT ![lottery] = runs[p].data]
    /\ Return(p, TRUE, "SAVED")
    /\ clock' = clock + 1
    /\ UNCHANGED <<today, pc, cycle, lottery, candidates, verdict,
                   results, prev, responses, live, jackpotsUpdated, evaluated,
                   sched, call>>
    /\ UNCHANGED moreVars

InitRace ==
    /\ CycleAtRest
    /\ MoreIdle
    /\ pc = "race"
    /\ runs \in [Procs -> {Entered(d) : d \in RunDraws}]
    /\ sched = NotStarted
    /\ call = NoCall

NextRace ==
    \E p \in Procs : Load(p) \/ Check(p) \/ Insert(p) \/ OpenWrite(p) \/ Dump(p)

SpecRace == InitRace /\ [][NextRace]_vars

(* ------------------- save_draw cut short by an interrupt --------------- *)
\* json.dump has handed a first part of the document to the file
DumpPart(p) ==
    /\ runs[p].pc = "dump"
    /\ store[lottery] = EmptyFile
    /\ \E n \in 1..(Len(runs[p].data.draws) - 1) :
          store' = [store EXCEPT ![lottery] = PartialFile(runs[p].data, n)]
    /\ clock' = clock + 1
    /\ UNCHANGED <<today, pc, cycle, lottery, candidates, verdict,
                   results, prev, responses, live, jackpotsUpdated, evaluated,
                   runs, sched, call>>
    /\ UNCHANGED moreVars

\* the process is interrupted or killed inside save_draw; the file stays as
\* it is at that moment
Interrupt(p) ==
    /\ runs[p].pc \notin {"done", "killed"}
    /\ runs' = [runs EXCEPT ![p].pc = "killed"]
    /\ clock' = clock + 1
    /\ UNCHANGED <<store, today, pc, cycle, lottery, candidates, verdict,
                   results, prev, responses, live, jackpotsUpdated, evaluated,
                   sched, call>>
    /\ UNCHANGED moreVars

InitCrash ==
    /\ CycleAtRest
    /\ MoreIdle
    /\ pc = "crash"
    /\ \E d \in RunDraws :
          runs = [p \in Procs |-> IF p = "scheduled" THEN Entered(d)
                                   ELSE NotRunning]
    /\ sched = NotStarted
    /\ call = NoCall

NextCrash ==
    \E p \in Procs :
        \/ Load(p) \/ Check(p) \/ Insert(p) \/ OpenWrite(p)
        \/ DumpPart(p) \/ Dump(p) \/ Interrupt(p)

SpecCrash == InitCrash /\ [][NextCrash]_vars

(* ------------------- one adapter call and what follows ----------------- *)
\* urlopen, read or gzip.decompress raised: no body arrives
NetError == [date |-> NoDate, nums |-> <<>>, bonus |-> 0 - 1]

\* a body arrives that is not the XML, CSV or HTML the adapter expects
Garbage == [date |-> NoDate, nums |-> <<>>, bonus |-> 0 - 2]

\* number lists a source can show that are not a draw: four numbers, six
\* numbers, a number twice, a number above every main range
BadNums == {<<5, 1, 2, 3>>, <<6, 1, 2, 3, 4, 5>>, <<5, 1, 1, 2, 3>>,
            <<99, 1, 2, 3, 4>>}

\* pages whose numbers are not a draw, and a page whose bonus is not one
MalformedPages(day) ==
    {[date |-> d, nums |-> n, bonus |-> 1] : d \in PageDates(day), n \in BadNums}
    \cup {[date |-> d, nums |-> MainOf(1), bonus |-> 99] : d \in PageDates(day)}

\* everything one HTTP request can come back with
Responses(day) == {NetError, Garbage} \cup Pages(day) \cup MalformedPages(day)

\* fetch_url: one urlopen; any exception is printed and None is returned
fetch_url(response) ==
    [html |-> IF response = NetError THEN FailPage ELSE response,
     requests |-> 1]

\* an exception on its way out of a function
Raise == [date |-> 0, main |-> <<>>, bonus |-> 0, source |-> "Exception"]

\* the pages on which the body of the i-th adapter of lottery k raises:
\* ET.fromstring on a body that is not XML, strptime on a first CSV field
\* that is not a date, numbers[5] on a CSV row with fewer than six numbers
Raises(k, i, page) ==
    CASE Adapters(k)[i] = "CT_RSS" -> page = Garbage
      [] Adapters(k)[i] = "NY_OpenData" ->
            /\ page \notin {FailPage, Garbage}
            /\ \/ page.date = NoDate
               \/ k = "PB" /\ Len(page.nums) + 1 < 6
      [] OTHER -> FALSE

\* the statements inside the try block of the adapter
Body(k, i, page, day) ==
    IF Raises(k, i, page) THEN Raise ELSE Fetch(k, i, page, day)

\* the adapter has no except clause
Catch_Propagates(r) == r

\* except Exception as e: print(...); return None
Catch(r) == IF r = Raise THEN None ELSE r

\* one call of the i-th adapter of lottery k
Adapter(k, i, response, day) ==
    Catch(Body(k, i, fetch_url(response).html, day))

InitAdapters ==
    /\ CycleAtRest
    /\ MoreIdle
    /\ pc = "adapter"
    /\ runs = [p \in Procs |-> NotRunning]
    /\ sched = NotStarted
    /\ call \in {[i |-> i, response |-> r, result |-> None, requests |-> 0] :
                    i \in 1..Len(Adapters(live)), r \in Responses(FirstDay)}

\* la_iowa = fetch_la_iowa(), for any adapter of the lottery
AdapterCall ==
    /\ pc = "adapter"
    /\ call' = [call EXCEPT
                  !.result = Adapter(lottery, call.i, call.response, today),
                  !.requests = call.requests + fetch_url(call.response).requests]
    /\ pc' = "fetched"
    /\ clock' = clock + 1
    /\ UNCHANGED <<store, today, cycle, lottery, candidates, verdict, results,
                   prev, responses, live, jackpotsUpdated, evaluated, runs,
                   sched>>
    /\ UNCHANGED moreVars

\* the rest of the lottery's block when no other source answers: the
\* result is verified and saved
VerifyAndSave ==
    /\ pc = "fetched"
    /\ call.result # Raise
    /\ LET fetched == [j \in 1..Len(Adapters(lottery)) |->
                          IF j = call.i THEN call.result ELSE None]
           v == verify_and_get_best(fetched)
           s == save_draw(store[lottery], v.draw, clock)
       IN  /\ candidates' = fetched
           /\ verdict' = v
           /\ store' = [store EXCEPT ![lottery] = s.data]
           /\ results' = [results EXCEPT ![lottery] =
                 [done |-> TRUE, cands |-> fetched, draw |-> v.draw,
                  kind |-> v.kind, names |-> v.names,
                  saved |-> s.saved, msg |-> s.msg,
                  before |-> store[lottery]]]
    /\ pc' = "saved"
    /\ clock' = clock + 1
    /\ UNCHANGED <<today, cycle, lottery, prev, responses, live,
                   jackpotsUpdated, evaluated, runs, sched, call>>
    /\ UNCHANGED moreVars

NextAdapters == AdapterCall \/ VerifyAndSave

SpecAdapters == InitAdapters /\ [][NextAdapters]_vars

(* ---------------------------- the scheduler ---------------------------- *)
\* sched.pc is the statement run_scheduler is in: "start", "initial" (the
\* update_all() of line 44), "sleeping" (time.sleep(1800)), "running" (the
\* update_all() of line 51), "cooldown" (time.sleep(60)), "stopped" (after
\* the break) or "crashed" (an exception left run_scheduler).  sched.sub is
\* the subprocess update_all is waiting for.  sched.trace lists what has
\* happened: "cycle" (update_all called), "end" (it returned), "raise" (an
\* exception came out of it), "sleep" (a whole 30 minute sleep), "error"
\* (Scheduler error printed), "cooldown" (a whole 60 second sleep),
\* "stopped" (Scheduler stopped by user printed), and the lines update_all
\* prints: "complete", "dual error", "fallback error".

\* the scheduler sleeps before its first update
FirstPc_SleepsFirst == "sleeping"

\* update_all() is called before the loop is entered
FirstPc == "initial"

\* the statements in which update_all is running
InCycle == {"initial", "running"}

\* the statements inside the try block of the loop
InTry == {"sleeping", "running"}

Happens(events) == sched.trace \o events

CanLog(n) == Len(sched.trace) + n <= MaxEvents

\* run_scheduler prints its banner and goes to its first statement
StartScheduler ==
    /\ sched.pc = "start"
    /\ sched' = [pc |-> FirstPc,
                 sub |-> IF FirstPc \in InCycle THEN "dual" ELSE "none",
                 trace |-> IF FirstPc \in InCycle THEN <<"cycle">> ELSE <<>>,
                 exit |-> "none"]
    /\ UNCHANGED <<cycleVars, runs, call>>
    /\ UNCHANGED moreVars

\* update_all returns to run_scheduler, which goes on to time.sleep(1800)
Returned(printed) ==
    [sched EXCEPT !.pc = "sleeping", !.sub = "none",
                  !.trace = Happens(printed \o <<"end">>)]

\* the old updater is started after the dual-source updater in any case
AfterDual_AlwaysFallback(ok) ==
    [sched EXCEPT !.sub = "updater",
                  !.trace = Happens(IF ok THEN <<"complete">>
                                    ELSE <<"dual error">>)]

\* after subprocess.run(dual_source_updater.py, check=True): the try block
\* goes on when it returned, the except block is entered when it raised
AfterDual(ok) ==
    IF ok THEN Returned(<<"complete">>)
    ELSE [sched EXCEPT !.sub = "updater",
                       !.trace = Happens(<<"dual error">>)]

\* subprocess.run(dual_source_updater.py, check=True) ends: with exit code
\* 0, or with an error, after which the old updater is started
DualSourceEnds ==
    /\ sched.pc \in InCycle
    /\ sched.sub = "dual"
    /\ CanLog(2)
    /\ \E ok \in BOOLEAN : sched' = AfterDual(ok)
    /\ UNCHANGED <<cycleVars, runs, call>>
    /\ UNCHANGED moreVars

\* subprocess.run(updater.py, check=True) ends: get_jackpots.py is next, or
\* the fallback error is printed
FallbackUpdaterEnds ==
    /\ sched.pc \in InCycle
    /\ sched.sub = "updater"
    /\ CanLog(2)
    /\ \E ok \in BOOLEAN :
          sched' = IF ok THEN [sched EXCEPT !.sub = "jackpots"]
                   ELSE Returned(<<"fallback error">>)
    /\ UNCHANGED <<cycleVars, runs, call>>
    /\ UNCHANGED moreVars

\* subprocess.run(get_jackpots.py, check=True) ends, well or not
FallbackJackpotsEnds ==
    /\ sched.pc \in InCycle
    /\ sched.sub = "jackpots"
    /\ CanLog(2)
    /\ \E ok \in BOOLEAN :
          sched' = IF ok THEN Returned(<<>>)
                   ELSE Returned(<<"fallback error">>)
    /\ UNCHANGED <<cycleVars, runs, call>>
    /\ UNCHANGED moreVars

\* an exception comes out of update_all (a print outside its try blocks or
\* inside its except blocks fails): in the loop it is caught and reported,
\* at line 44 nothing catches it
CycleRaises ==
    /\ sched.pc \in InCycle
    /\ CanLog(2)
    /\ sched' = IF sched.pc \in InTry
                THEN [sched EXCEPT !.pc = "cooldown", !.sub = "none",
                                   !.trace = Happens(<<"raise", "error">>)]
                ELSE [sched EXCEPT !.pc = "crashed", !.sub = "none",
                                   !.trace = Happens(<<"raise">>),
                                   !.exit = "exception"]
    /\ UNCHANGED <<cycleVars, runs, call>>
    /\ UNCHANGED moreVars

\* time.sleep(1800) is over: update_all is called
SleepEnds ==
    /\ sched.pc = "sleeping"
    /\ CanLog(2)
    /\ sched' = [sched EXCEPT !.pc = "running", !.sub = "dual",
                              !.trace = Happens(<<"sleep", "cycle">>)]
    /\ UNCHANGED <<cycleVars, runs, call>>
    /\ UNCHANGED moreVars

\* time.sleep(60) is over: back to the top of the loop
CooldownEnds ==
    /\ sched.pc = "cooldown"
    /\ CanLog(1)
    /\ sched' = [sched EXCEPT !.pc = "sleeping",
                              !.trace = Happens(<<"cooldown">>)]
    /\ UNCHANGED <<cycleVars, runs, call>>
    /\ UNCHANGED moreVars

\* Ctrl+C: inside the try block it is caught and the loop is left; in the
\* start-up update and in the sleep of the except block it is not
KeyboardInterrupt ==
    /\ sched.pc \in InCycle \cup {"sleeping", "cooldown"}
    /\ CanLog(1)
    /\ sched' = IF sched.pc \in InTry
                THEN [sched EXCEPT !.pc = "stopped", !.sub = "none",
                                   !.trace = Happens(<<"stopped">>),
                                   !.exit = "user"]
                ELSE [sched EXCEPT !.pc = "crashed", !.sub = "none",
                                   !.exit = "interrupt"]
    /\ UNCHANGED <<cycleVars, runs, call>>
    /\ UNCHANGED moreVars

InitSched ==
    /\ CycleAtRest
    /\ MoreIdle
    /\ live = "L4L"
    /\ pc = "idle"
    /\ runs = [p \in Procs |-> NotRunning]
    /\ sched = NotStarted
    /\ call = NoCall

NextSched ==
    \/ StartScheduler
    \/ DualSourceEnds
    \/ FallbackUpdaterEnds
    \/ FallbackJackpotsEnds
    \/ CycleRaises
    \/ SleepEnds
    \/ CooldownEnds
    \/ KeyboardInterrupt

SpecSched == InitSched /\ [][NextSched]_vars

(* ----------------- the jackpot part of the update cycle ---------------- *)
\* what the two sources of the lottery that can be reached may answer; no
\* pattern of a second source looks for a cash value
AnswerSets(k) ==
    {[j \in Lotteries |->
         IF j = k /\ k \in Scraped THEN [primary |-> a, fallback |-> b]
         ELSE [primary |-> NoPage, fallback |-> NoPage]] :
        a \in JackpotPages \cup {NoPage},
        b \in {p \in JackpotPages : p.cash = 0} \cup {NoPage}}

\* jackpots = fetch_jackpots()
FetchJackpots ==
    /\ pc = "fetch jackpots"
    /\ \E answers \in AnswerSets(live) :
          jackpots' = [answers |-> answers, fetched |-> fetch_jackpots(answers),
                       before |-> jackpotFile]
    /\ pc' = "save jackpots"
    /\ clock' = clock + 1
    /\ UNCHANGED <<store, today, cycle, lottery, candidates, verdict, results,
                   prev, responses, live, jackpotsUpdated, evaluated>>
    /\ UNCHANGED otherVars
    /\ UNCHANGED <<jackpotFile, now, jsaved, http, hunter>>

\* save_jackpots(jackpots), run to its end
WriteJackpots ==
    /\ pc = "save jackpots"
    /\ \E r \in {save_jackpots(jackpotFile, jackpots.fetched, now)} :
          /\ jackpotFile' = r.data
          /\ jsaved' = IF r.ok THEN "True" ELSE "False"
    /\ pc' = "cycle done"
    /\ clock' = clock + 1
    /\ UNCHANGED <<store, today, cycle, lottery, candidates, verdict, results,
                   prev, responses, live, jackpotsUpdated, evaluated>>
    /\ UNCHANGED otherVars
    /\ UNCHANGED <<jackpots, now, http, hunter>>

\* the process is stopped (Ctrl+C, kill) after open(file_path, 'w') has
\* emptied jackpots.json and before json.dump has written it
StopWhileWriting ==
    /\ pc = "save jackpots"
    /\ jackpotFile.readable
    /\ jackpotFile' = NoJackpotFile
    /\ jsaved' = "killed"
    /\ pc' = "stopped"
    /\ clock' = clock + 1
    /\ UNCHANGED <<store, today, cycle, lottery, candidates, verdict, results,
                   prev, responses, live, jackpotsUpdated, evaluated>>
    /\ UNCHANGED otherVars
    /\ UNCHANGED <<jackpots, now, http, hunter>>

\* the next cycle comes to its jackpot part: 30 minutes later, or the
\* day after when the scheduler had to be started again
NextJackpotCycle ==
    /\ pc \in {"cycle done", "stopped"}
    /\ cycle < MaxCycles
    /\ cycle' = cycle + 1
    /\ now' = IF pc = "stopped" THEN now + PerDay ELSE now + 30 * PerMinute
    /\ pc' = "fetch jackpots"
    /\ clock' = clock + 1
    /\ UNCHANGED <<store, today, lottery, candidates, verdict, results,
                   prev, responses, live, jackpotsUpdated, evaluated>>
    /\ UNCHANGED otherVars
    /\ UNCHANGED <<jackpotFile, jackpots, jsaved, http, hunter>>

\* a Monday evening, before the jackpot part of the first cycle; the file
\* may have no entry yet for the lottery whose sources can be reached
InitJackpots ==
    /\ CycleAtRest
    /\ pc = "cycle done"
    /\ runs = [p \in Procs |-> NotRunning]
    /\ sched = NotStarted
    /\ call = NoCall
    /\ jackpotFile \in {InitJackpotFile,
                        [InitJackpotFile EXCEPT !.entries[live] = NoSnapshot]}
    /\ jackpots = NotFetched
    /\ now = 7 * PerDay + (DrawMinute("PB") - 60) * PerMinute
    /\ jsaved = "none"
    /\ RestIdle

NextJackpots ==
    FetchJackpots \/ WriteJackpots \/ StopWhileWriting \/ NextJackpotCycle

SpecJackpots == InitJackpots /\ [][NextJackpots]_vars

(* --------------------- the next draw of every lottery ------------------ *)
\* the times of day around the draws, to the half minute
DayTimes ==
    {m * PerMinute + h :
        m \in {0, 12 * 60, DrawMinute("L4L") - 1, DrawMinute("L4L"),
               DrawMinute("L4L") + 1, DrawMinute("PB") - 1, DrawMinute("PB"),
               DrawMinute("LA"), DrawMinute("LA") + 1, 24 * 60 - 1},
        h \in {0, 1}}

\* those times on every day of a week
Instants == {d * PerDay + t : d \in 7..13, t \in DayTimes}

\* the amounts get_jackpots.py can come to: the one its source shows, or
\* the manual one
ScriptAmounts ==
    {[k \in Lotteries |->
         IF k \in {"PB", "MM"} /\ k = j THEN 100 * a ELSE ManualAmount(k)] :
        j \in Lotteries, a \in 1..NumValues}

\* get_jackpots.py, the scheduler's fallback, run in place of the jackpot
\* part of dual_source_updater.py
RunGetJackpots ==
    /\ pc = "fetch jackpots"
    /\ \E amounts \in ScriptAmounts :
          jackpotFile' = get_jackpots_file(amounts, now)
    /\ jsaved' = "script"
    /\ jackpots' = [jackpots EXCEPT !.before = jackpotFile]
    /\ pc' = "cycle done"
    /\ clock' = clock + 1
    /\ UNCHANGED <<store, today, cycle, lottery, candidates, verdict, results,
                   prev, responses, live, jackpotsUpdated, evaluated>>
    /\ UNCHANGED otherVars
    /\ UNCHANGED <<now, http, hunter>>

\* the jackpot part of a cycle is about to run, at any of the instants
InitNextDraw ==
    /\ CycleAtRest
    /\ pc = "fetch jackpots"
    /\ runs = [p \in Procs |-> NotRunning]
    /\ sched = NotStarted
    /\ call = NoCall
    /\ jackpotFile = InitJackpotFile
    /\ jackpots = NotFetched
    /\ now \in Instants
    /\ jsaved = "none"
    /\ RestIdle

NextNextDraw == FetchJackpots \/ WriteJackpots \/ RunGetJackpots

SpecNextDraw == InitNextDraw /\ [][NextNextDraw]_vars

(* ------------------- the two insert-if-new functions ------------------- *)
\* a store whose two draws are results a source can deliver again
StoreOfResults ==
    [draws |-> << [date |-> FirstDay - 1, main |-> Sorted(MainOf(2)),
                   bonus |-> BonusOf(2)],
                  [date |-> FirstDay - 2, main |-> Sorted(MainOf(1)),
                   bonus |-> BonusOf(1)] >>,
     lastUpdated |-> 0]

\* the store files of lottery k an insert can meet: unreadable, without
\* draws, and with draws
InsertFiles(k) ==
    {EmptyFile, [draws |-> <<>>, lastUpdated |-> 0], InitStore(k),
     StoreWithResult(k), StoreOfResults}

\* the draws that can be handed to an insert: none, one as a fetcher of
\* updater.py returns it, one as verify_and_get_best returns it
InsertDraws(k) ==
    {None}
    \cup {[date |-> d, main |-> Sorted(MainOf(v)), bonus |-> BonusOf(v)] :
             d \in (FirstDay - 2)..FirstDay, v \in VerifyValues}
    \cup {[date |-> d, main |-> Sorted(MainOf(v)), bonus |-> BonusOf(v),
           source |-> Adapters(k)[1]] :
             d \in (FirstDay - 2)..FirstDay, v \in VerifyValues}

\* success, msg = update_lottery_data('la', la_draw) in updater.update_all
UpdaterInserts ==
    /\ pc = "insert"
    /\ \E s \in {update_lottery_data(store[lottery], candidates[1], clock)} :
          /\ store' = [store EXCEPT ![lottery] = s.data]
          /\ results' = [results EXCEPT ![lottery] =
                           [done |-> TRUE, cands |-> candidates,
                            draw |-> candidates[1], kind |-> "NONE",
                            names |-> <<>>, saved |-> s.saved,
                            msg |-> s.msg, before |-> store[lottery]]]
    /\ pc' = "updater done"
    /\ clock' = clock + 1
    /\ UNCHANGED <<today, cycle, lottery, candidates, verdict, prev,
                   responses, live, jackpotsUpdated, evaluated>>
    /\ UNCHANGED otherVars
    /\ UNCHANGED moreVars

\* saved, save_msg = save_draw('LA', la_draw, la_msg) in
\* dual_source_updater.update_all
DualInserts ==
    /\ pc = "insert"
    /\ \E s \in {save_draw(store[lottery], candidates[1], clock)} :
          /\ store' = [store EXCEPT ![lottery] = s.data]
          /\ results' = [results EXCEPT ![lottery] =
                           [done |-> TRUE, cands |-> candidates,
                            draw |-> candidates[1], kind |-> "NONE",
                            names |-> <<>>, saved |-> s.saved,
                            msg |-> s.msg, before |-> store[lottery]]]
    /\ pc' = "dual done"
    /\ clock' = clock + 1
    /\ UNCHANGED <<today, cycle, lottery, candidates, verdict, prev,
                   responses, live, jackpotsUpdated, evaluated>>
    /\ UNCHANGED otherVars
    /\ UNCHANGED moreVars

\* one draw is about to be inserted into the file of one lottery
InitInsert ==
    /\ lottery \in Lotteries
    /\ \E f \in InsertFiles(lottery) :
          store = [k \in Lotteries |-> IF k = lottery THEN f ELSE InitStore(k)]
    /\ \E d \in InsertDraws(lottery) : candidates = <<d>>
    /\ today = FirstDay
    /\ clock = 1
    /\ pc = "insert"
    /\ cycle = 0
    /\ verdict = verify_and_get_best(<<>>)
    /\ results = [k \in Lotteries |-> Absent]
    /\ prev = [k \in Lotteries |-> Absent]
    /\ responses = 0
    /\ live = lottery
    /\ jackpotsUpdated = 0
    /\ evaluated = FALSE
    /\ OthersIdle

NextInsert == UpdaterInserts \/ DualInserts

SpecInsert == InitInsert /\ [][NextInsert]_vars

(* -------------- one cycle of the scheduler, request by request --------- *)
\* The scheduler waits in subprocess.run, which is given no timeout, until
\* dual_source_updater.py has ended.  That script sends its requests one
\* after the other: the draw adapters of every lottery, then the jackpot
\* sources, the second source of a lottery only when the first found
\* nothing.  http.pc is where this stands, http.at the request, http.mode
\* what the source does with it.
DrawRequests ==
    << <<"L4L", 1>>, <<"L4L", 2>>, <<"LA", 1>>, <<"LA", 2>>, <<"LA", 3>>,
       <<"LA", 4>>, <<"PB", 1>>, <<"PB", 2>>, <<"PB", 3>>, <<"MM", 1>>,
       <<"MM", 2>> >>

JackpotRequests ==
    << <<"PB", 1>>, <<"PB", 2>>, <<"MM", 1>>, <<"MM", 2>>, <<"LA", 1>>,
       <<"LA", 2>> >>

NumRequests == Len(DrawRequests) + Len(JackpotRequests)

\* what a source can do with a request: answer, refuse the connection,
\* stay silent, or send its answer piece by piece without ever letting
\* the socket wait the whole timeout
Modes == {"answers", "refuses", "silent", "trickles"}

\* the request after request n: the second jackpot source is left out when
\* the first one answered
Following(n, answered) ==
    IF /\ n > Len(DrawRequests)
       /\ JackpotRequests[n - Len(DrawRequests)][2] = 1
       /\ answered
    THEN n + 2 ELSE n + 1

\* time.sleep(1800) is over: update_all starts the updater script
SchedulerWakes ==
    /\ http.pc = "sleeping"
    /\ http.cycles < MaxCycles
    /\ http' = [pc |-> "request", at |-> 1, mode |-> "none", got |-> 0,
                errors |-> 0, cycles |-> http.cycles + 1]
    /\ UNCHANGED <<cycleVars, otherVars, jackpotFile, jackpots, now, jsaved,
                   hunter>>

\* urllib.request.urlopen(req, timeout=timeout)
SendRequest ==
    /\ http.pc = "request"
    /\ \E m \in Modes : http' = [http EXCEPT !.pc = "waiting", !.mode = m]
    /\ UNCHANGED <<cycleVars, otherVars, jackpotFile, jackpots, now, jsaved,
                   hunter>>

\* the request is over and fetch_url returns, with the page or with None
Returns(failed) ==
    http' = [http EXCEPT
                !.pc = IF Following(http.at, ~failed) > NumRequests
                       THEN "exit" ELSE "request",
                !.at = Following(http.at, ~failed),
                !.mode = "none",
                !.got = 0,
                !.errors = IF failed THEN http.errors + 1 ELSE http.errors]

\* resp.read() gets the whole body
SourceAnswers ==
    /\ http.pc = "waiting"
    /\ http.mode = "answers"
    /\ Returns(FALSE)
    /\ UNCHANGED <<cycleVars, otherVars, jackpotFile, jackpots, now, jsaved,
                   hunter>>

\* urlopen raises (DNS, connection refused, HTTP error): except Exception
ConnectionFails ==
    /\ http.pc = "waiting"
    /\ http.mode = "refuses"
    /\ Returns(TRUE)
    /\ UNCHANGED <<cycleVars, otherVars, jackpotFile, jackpots, now, jsaved,
                   hunter>>

\* no byte for 15 seconds: the socket operation times out, except Exception
SocketTimeout ==
    /\ http.pc = "waiting"
    /\ http.mode = "silent"
    /\ Returns(TRUE)
    /\ UNCHANGED <<cycleVars, otherVars, jackpotFile, jackpots, now, jsaved,
                   hunter>>

\* the source sends another piece before 15 seconds have passed: the
\* timeout, which is one for every socket operation, starts again (only
\* whether the number of pieces is odd is kept)
SourceSendsPiece ==
    /\ http.pc = "waiting"
    /\ http.mode = "trickles"
    /\ http' = [http EXCEPT !.got = (http.got + 1) % 2]
    /\ UNCHANGED <<cycleVars, otherVars, jackpotFile, jackpots, now, jsaved,
                   hunter>>

\* the slow source sends the last piece
SourceEndsBody ==
    /\ http.pc = "waiting"
    /\ http.mode = "trickles"
    /\ http.got > 0
    /\ Returns(FALSE)
    /\ UNCHANGED <<cycleVars, otherVars, jackpotFile, jackpots, now, jsaved,
                   hunter>>

\* the script ends, subprocess.run returns, and the scheduler sleeps
ScriptEnds ==
    /\ http.pc = "exit"
    /\ http' = [http EXCEPT !.pc = "sleeping"]
    /\ UNCHANGED <<cycleVars, otherVars, jackpotFile, jackpots, now, jsaved,
                   hunter>>

InitFetch ==
    /\ CycleAtRest
    /\ pc = "requests"
    /\ runs = [p \in Procs |-> NotRunning]
    /\ sched = NotStarted
    /\ call = NoCall
    /\ JackpotsIdle
    /\ http = [NoRequest EXCEPT !.pc = "sleeping"]
    /\ hunter = NotCalled

\* the steps of the program and of its timers
ProgramSteps ==
    SchedulerWakes \/ SendRequest \/ ConnectionFails \/ SocketTimeout
        \/ ScriptEnds

NextFetch ==
    \/ SchedulerWakes
    \/ SendRequest
    \/ SourceAnswers
    \/ ConnectionFails
    \/ SocketTimeout
    \/ SourceSendsPiece
    \/ SourceEndsBody
    \/ ScriptEnds

\* the program takes every step it can take, a timeout that is due fires,
\* and a source that answers does so; nothing is assumed of a slow source
SpecFetch ==
    InitFetch /\ [][NextFetch]_vars /\ WF_vars(ProgramSteps)
        /\ WF_vars(SourceAnswers)

(* ------------------------- the jackpot hunter -------------------------- *)
\* hunter.pc is the statement run_continuous is in: "called", "running"
\* (run_once), "sleeping" (the sleep between two runs), "cooldown" (the
\* sleep of the except block), "returned" or "crashed" (an exception left
\* run_continuous).  hunter.trace lists what has happened: "run" (run_once
\* called), "end" (it returned), "error" (it raised and Error was
\* printed), "sleep", "cooldown" (a whole sleep), "stopped" (Stopped by
\* user printed).

\* max_runs=None
NoCap == 0 - 1

HunterLogs(events) == hunter.trace \o events

HunterCanLog(n) == Len(hunter.trace) + n <= MaxEvents

\* while max_runs is None or run_count < max_runs: ... self.run_once()
LoopTop(events) ==
    IF hunter.max_runs = NoCap \/ hunter.run_count < hunter.max_runs
    THEN [hunter EXCEPT !.pc = "running",
                        !.trace = HunterLogs(events \o <<"run">>)]
    ELSE [hunter EXCEPT !.pc = "returned", !.trace = HunterLogs(events)]

\* run_count = 0, and the loop is entered
EnterLoop ==
    /\ hunter.pc = "called"
    /\ hunter' = LoopTop(<<>>)
    /\ UNCHANGED <<cycleVars, otherVars, jackpotFile, jackpots, now, jsaved,
                   http>>

\* run_once returns: run_count += 1, then the break or the sleep
RunOnceReturns ==
    /\ hunter.pc = "running"
    /\ HunterCanLog(1)
    /\ hunter' = [hunter EXCEPT
                     !.run_count = hunter.run_count + 1,
                     !.trace = HunterLogs(<<"end">>),
                     !.pc = IF /\ hunter.max_runs \notin {NoCap, 0}
                               /\ hunter.run_count + 1 >= hunter.max_runs
                            THEN "returned" ELSE "sleeping"]
    /\ UNCHANGED <<cycleVars, otherVars, jackpotFile, jackpots, now, jsaved,
                   http>>

\* run_once raises (a data file is missing, the results cannot be saved):
\* except Exception prints the error and sleeps 60 seconds
RunOnceRaises ==
    /\ hunter.pc = "running"
    /\ HunterCanLog(1)
    /\ hunter' = [hunter EXCEPT !.pc = "cooldown",
                                !.trace = HunterLogs(<<"error">>)]
    /\ UNCHANGED <<cycleVars, otherVars, jackpotFile, jackpots, now, jsaved,
                   http>>

\* time.sleep(interval_minutes * 60) is over
HunterSleepEnds ==
    /\ hunter.pc = "sleeping"
    /\ HunterCanLog(2)
    /\ hunter' = LoopTop(<<"sleep">>)
    /\ UNCHANGED <<cycleVars, otherVars, jackpotFile, jackpots, now, jsaved,
                   http>>

\* time.sleep(60) is over
HunterCooldownEnds ==
    /\ hunter.pc = "cooldown"
    /\ HunterCanLog(2)
    /\ hunter' = LoopTop(<<"cooldown">>)
    /\ UNCHANGED <<cycleVars, otherVars, jackpotFile, jackpots, now, jsaved,
                   http>>

\* Ctrl+C: caught inside the try block, not in the sleep of the except
\* block
HunterInterrupt ==
    /\ hunter.pc \in {"running", "sleeping", "cooldown"}
    /\ HunterCanLog(1)
    /\ hunter' = IF hunter.pc = "cooldown"
                 THEN [hunter EXCEPT !.pc = "crashed", !.exit = "interrupt"]
                 ELSE [hunter EXCEPT !.pc = "returned", !.exit = "user",
                                     !.trace = HunterLogs(<<"stopped">>)]
    /\ UNCHANGED <<cycleVars, otherVars, jackpotFile, jackpots, now, jsaved,
                   http>>

\* run_continuous is called without a cap, or with a cap of 0, 1, ...
InitHunter ==
    /\ CycleAtRest
    /\ pc = "hunter"
    /\ runs = [p \in Procs |-> NotRunning]
    /\ sched = NotStarted
    /\ call = NoCall
    /\ JackpotsIdle
    /\ http = NoRequest
    /\ \E n \in {NoCap} \cup (0..MaxCycles) :
          hunter = [pc |-> "called", max_runs |-> n, run_count |-> 0,
                    trace |-> <<>>, exit |-> "none"]

NextHunter ==
    \/ EnterLoop
    \/ RunOnceReturns
    \/ RunOnceRaises
    \/ HunterSleepEnds
    \/ HunterCooldownEnds
    \/ HunterInterrupt

SpecHunter == InitHunter /\ [][NextHunter]_vars

(* ------------------------- what update_all prints ---------------------- *)
\* the (main, bonus) values that the text of a save message contains
SaveMsgValues(msg) ==
    IF msg.kind = "SAVED" THEN {[main |-> msg.main, bonus |-> msg.bonus]}
    ELSE {}

\* the (main, bonus) values in the lines update_all prints for one lottery:
\* a mark per source, the verification message (source names only) and the
\* save message
LoggedValues(r) == SaveMsgValues(r.msg)

(* ------------------------------ properties ----------------------------- *)
Numbers(d) == [main |-> d.main, bonus |-> d.bonus]

\* positions of the candidates that are not failures
ValidIn(c) == {i \in DOMAIN c : c[i] # None}

\* the documented reliability order: NY OpenData > CT RSS > Iowa > others,
\* and among others the order in which the lottery lists its sources
Reliability(src) ==
    CASE src = "NY_OpenData" -> 1
      [] src = "CT_RSS"      -> 2
      [] src = "Iowa"        -> 3
      [] OTHER               -> 99

HigherPriority(c, i, j) ==
    \/ Reliability(c[i].source) < Reliability(c[j].source)
    \/ Reliability(c[i].source) = Reliability(c[j].source) /\ i < j

\* C1: after any sequence of successful save_draw inserts, whatever the
\* dates of the inserted draws, every store is sorted strictly newest-first
\* by date, so that no two entries share a date.
C1_SortedNewestFirst ==
    \A k \in Lotteries :
        \A i, j \in 1..Len(store[k].draws) :
            i < j => store[k].draws[i].date > store[k].draws[j].date

\* C2: when save_draw is called for a lottery with the draw it has just
\* inserted (also: when a cycle is re-run with the same adapter outputs), the
\* second call inserts nothing, answers "Already have <date>" and leaves the
\* store as the first call left it; the draw is stored exactly once.
C2_InsertIdempotent ==
    \A k \in Lotteries :
        ( /\ results[k].done /\ prev[k].done /\ prev[k].saved
          /\ \/ results[k].draw = prev[k].draw
             \/ results[k].cands = prev[k].cands )
        => /\ results[k].draw = prev[k].draw
           /\ ~results[k].saved
           /\ results[k].msg.kind = "AlreadyHave"
           /\ results[k].msg.date = prev[k].draw.date
           /\ store[k] = results[k].before
           /\ Cardinality({i \in 1..Len(store[k].draws) :
                  /\ store[k].draws[i].date = prev[k].draw.date
                  /\ SameNumbers(store[k].draws[i], prev[k].draw)}) = 1

C2_Witness ==
    \E k \in Lotteries :
        /\ results[k].done /\ prev[k].done /\ prev[k].saved
        /\ results[k].cands = prev[k].cands
        /\ results[k].msg.kind = "AlreadyHave"

\* C3: no draw dated on a weekday on which its lottery does not draw is in
\* a store that the update cycle has written.
C3_DrawWeekdaysOnly ==
    \A k \in Lotteries :
        \A i \in 1..Len(store[k].draws) :
            Weekday(store[k].draws[i].date) \in DrawDays(k)

\* C4: whenever any two non-failed candidates have the same (main, bonus),
\* also two that do not include the first-listed one, verify_and_get_best
\* accepts an agreed value: the result is VERIFIED and its numbers are those
\* of at least two candidates.
C4_AnyAgreeingPairAccepted ==
    pc # "verify" =>
        ( (\E i, j \in ValidIn(candidates) :
              i < j /\ SameNumbers(candidates[i], candidates[j]))
          => /\ verdict.kind = "VERIFIED"
             /\ \E i, j \in ValidIn(candidates) :
                   /\ i < j
                   /\ SameNumbers(candidates[i], verdict.draw)
                   /\ SameNumbers(candidates[j], verdict.draw) )

\* C5: when the result is VERIFIED, the message names exactly the sources
\* whose (main, bonus) equals the accepted value, all of them.
C5_NamesEveryAgreeingSource ==
    (pc # "verify" /\ verdict.kind = "VERIFIED") =>
        {verdict.names[n] : n \in DOMAIN verdict.names}
          = {candidates[i].source : i \in
                {j \in ValidIn(candidates) :
                    SameNumbers(candidates[j], verdict.draw)}}

C7_TotalFailureLeavesStore ==
    \A k \in Lotteries :
        (results[k].done /\ ValidIn(results[k].cands) = {})
        => /\ results[k].draw = None
           /\ results[k].kind = "NONE"
           /\ ~results[k].saved
           /\ store[k] = results[k].before

C7_Witness ==
    /\ pc = "idle"
    /\ jackpotsUpdated > 0
    /\ \E k \in Lotteries :
          /\ results[k].done
          /\ ValidIn(results[k].cands) = {}
          /\ results[k].msg.kind = "NoDraw"
    /\ \E k \in Lotteries : results[k].saved

\* C8: when exactly one adapter of a lottery returned a draw,
\* verify_and_get_best returns that draw as a single-source result naming
\* that source, whatever its position in the adapter list.
C8_SingleSourceAccepted ==
    pc # "verify" =>
        \A i \in DOMAIN candidates :
            ValidIn(candidates) = {i}
            => /\ verdict.draw = candidates[i]
               /\ verdict.kind = "SINGLE"
               /\ verdict.names = <<candidates[i].source>>

C8_Witness ==
    /\ pc = "verified"
    /\ lottery = "LA"
    /\ ValidIn(candidates) = {4}
    /\ verdict.kind = "SINGLE"
    /\ verdict.draw = candidates[4]

\* C9: when exactly two adapters of a lottery returned draws with different
\* main numbers, the draw chosen (and stored, when it is saved) is that of
\* the higher-priority source, and the lines logged for the lottery contain
\* the values of both candidates.
C9_MismatchStoredAndLogged ==
    \A k \in Lotteries :
        results[k].done =>
            \A i, j \in DOMAIN results[k].cands :
                ( /\ i # j
                  /\ ValidIn(results[k].cands) = {i, j}
                  /\ results[k].cands[i].main # results[k].cands[j].main
                  /\ HigherPriority(results[k].cands, i, j) )
                => /\ results[k].draw = results[k].cands[i]
                   /\ results[k].saved =>
                         \E n \in 1..Len(store[k].draws) :
                            /\ store[k].draws[n].date = results[k].draw.date
                            /\ Numbers(store[k].draws[n])
                                  = Numbers(results[k].cands[i])
                   /\ {Numbers(results[k].cands[i]),
                       Numbers(results[k].cands[j])}
                         \subseteq LoggedValues(results[k])

\* C10: save_draw rejects, with an ordinary skip message and without
\* inserting, a draw whose (main, bonus) is already stored under any date;
\* no two draws of a store have the same main numbers and bonus.
C10_NoDuplicateNumbers ==
    \A k \in Lotteries :
        /\ \A i, j \in 1..Len(store[k].draws) :
              i < j => ~SameNumbers(store[k].draws[i], store[k].draws[j])
        /\ ( /\ results[k].done
             /\ results[k].draw # None
             /\ \E i \in 1..Len(results[k].before.draws) :
                   SameNumbers(results[k].before.draws[i], results[k].draw) )
           => /\ ~results[k].saved
              /\ results[k].msg.kind \in {"DuplicateNumbers", "AlreadyHave"}
              /\ store[k] = results[k].before

C10_Witness ==
    \E k \in Lotteries :
        /\ results[k].done
        /\ results[k].msg.kind = "DuplicateNumbers"
        /\ \E i \in 1..Len(store[k].draws) :
              /\ SameNumbers(store[k].draws[i], results[k].draw)
              /\ store[k].draws[i].date # results[k].draw.date

\* C11: when two update runs overlap on the same lottery file, then once
\* both have returned, every draw one of them reported as saved is in the
\* store: no insert is lost, whatever the interleaving of their steps.
C11_NoInsertLost ==
    (pc = "race" /\ \A p \in Procs : runs[p].pc = "done") =>
        \A p \in Procs :
            runs[p].saved =>
                \E n \in 1..Len(store[lottery].draws) :
                    store[lottery].draws[n] = Kept(runs[p].draw)

\* C12: a save_draw that is interrupted at any point leaves the file either
\* as it was before the call or as it is after the complete insert, never
\* empty or partly written.
C12_InterruptedWriteIsAllOrNothing ==
    (pc = "crash" /\ runs["scheduled"].pc = "killed") =>
        /\ Readable(store[lottery])
        /\ store[lottery].draws \in
              {InitStore(lottery).draws,
               InsertDraw(InitStore(lottery).draws,
                          Kept(runs["scheduled"].draw))}

\* the draws of old are the last draws of new, unchanged and in their order
KeptBelow(old, new) ==
    /\ Len(old) <= Len(new)
    /\ SubSeq(new, Len(new) - Len(old) + 1, Len(new)) = old

\* C13: the store is append-only under the update cycle: the draws a store
\* held at the start, at the lottery's step of the cycle before and at its
\* step of this cycle are all still in it, with the same date, main and
\* bonus and in the same relative order; each step adds at most one draw.
C13_AppendOnly ==
    \A k \in Lotteries :
        /\ KeptBelow(InitStore(k).draws, store[k].draws)
        /\ prev[k].done =>
              /\ KeptBelow(prev[k].before.draws, store[k].draws)
              /\ results[k].done =>
                    KeptBelow(prev[k].before.draws, results[k].before.draws)
        /\ results[k].done =>
              /\ KeptBelow(results[k].before.draws, store[k].draws)
              /\ Len(store[k].draws) <= Len(results[k].before.draws) + 1

\* two cycles have each saved a draw of one lottery on top of the old ones
C13_Witness ==
    \E k \in Lotteries :
        /\ prev[k].saved
        /\ results[k].saved
        /\ Len(store[k].draws) = Len(InitStore(k).draws) + 2

\* the size of the main pool and of the bonus pool of every lottery
MainRange(k) ==
    CASE k = "L4L" -> 48 [] k = "LA" -> 52 [] k = "PB" -> 69 [] k = "MM" -> 70

BonusRange(k) ==
    CASE k = "L4L" -> 18 [] k = "LA" -> 10 [] k = "PB" -> 26 [] k = "MM" -> 25

\* five distinct main numbers in range, in ascending order, and a bonus in
\* range
WellFormed(k, d) ==
    /\ Len(d.main) = 5
    /\ \A a \in 1..Len(d.main) : d.main[a] \in 1..MainRange(k)
    /\ \A a, b \in 1..Len(d.main) : a < b => d.main[a] < d.main[b]
    /\ d.bonus \in 1..BonusRange(k)

\* C14: every draw in a store has exactly five main numbers, distinct, in
\* the lottery's range and ascending, and a bonus in range: what a source
\* delivers otherwise never gets through the adapter, the verification and
\* save_draw.
C14_StoredDrawsWellFormed ==
    \A k \in Lotteries :
        \A n \in 1..Len(store[k].draws) : WellFormed(k, store[k].draws[n])

\* C20: an adapter call never lets an exception out: it ends with a draw or
\* with None, with None whenever the request failed or the body could not
\* be parsed, and it has made exactly one HTTP request.
C20_AdapterContainsFailures ==
    pc \in {"fetched", "saved"} =>
        /\ call.result # Raise
        /\ call.requests = 1
        /\ (\/ call.response \in {NetError, Garbage}
            \/ Raises(lottery, call.i, call.response)) => call.result = None

\* a call whose body raised (a feed that is not XML, a CSV row without a
\* date) has returned None to update_all
C20_Witness ==
    /\ pc = "fetched"
    /\ Raises(lottery, call.i, call.response)
    /\ call.result = None
    /\ call.requests = 1

\* the position of lottery k in the order of update_all
StepOf(k) == CHOOSE j \in 1..Len(Order) : Order[j] = k

\* C15: in one cycle the four lotteries are processed in order, each gets
\* its entry in results, and the jackpot step runs - also when sources
\* fail, when there is no candidate, when the insert is rejected and when
\* the store file cannot be read.
C15_EveryLotteryProcessed ==
    /\ pc \in Lotteries =>
          \A k \in Lotteries : results[k].done <=> StepOf(k) < StepOf(pc)
    /\ pc \in {"jackpots", "evaluate"} => \A k \in Lotteries : results[k].done
    /\ (pc = "idle" /\ cycle = MaxCycles) =>
          /\ \A k \in Lotteries : results[k].done
          /\ jackpotsUpdated > 0

\* a finished cycle in which one lottery ended with a save error and the
\* others without a candidate
C15_Witness ==
    /\ pc = "idle"
    /\ cycle = MaxCycles
    /\ results[live].msg.kind = "SaveError"
    /\ \A k \in Lotteries \ {live} : results[k].done /\ results[k].kind = "NONE"
    /\ jackpotsUpdated > 0

\* C19: the evaluation of the predictions is run at the end of a cycle
\* exactly when some lottery got a new draw in that cycle, and not before
\* every lottery's block and the jackpot step are over.
C19_EvaluationAfterNewDraw ==
    /\ (pc = "idle" /\ cycle = MaxCycles) =>
          (evaluated <=> \E k \in Lotteries : results[k].saved)
    /\ evaluated =>
          /\ pc = "idle"
          /\ \A k \in Lotteries : results[k].done
          /\ \A k \in Lotteries : store[k].lastUpdated < jackpotsUpdated

\* a finished cycle that saved a draw and ran the evaluation
C19_Witness ==
    /\ pc = "idle"
    /\ cycle = MaxCycles
    /\ results[live].saved
    /\ evaluated

\* the positions of event e in the scheduler's trace
At(e) == {i \in 1..Len(sched.trace) : sched.trace[i] = e}

\* the scheduler has left run_scheduler
Terminated == sched.pc \in {"stopped", "crashed"}

\* C16: an exception that comes out of a cycle, the start-up cycle
\* included, never ends the scheduler: it is followed by the error message,
\* the 60 second cooldown and then the sleep of the interval loop.
C16_CycleExceptionsCaught ==
    /\ sched.exit # "exception"
    /\ \A i \in At("raise") :
          /\ i + 1 <= Len(sched.trace) /\ sched.trace[i + 1] = "error"
          /\ i + 2 <= Len(sched.trace) => sched.trace[i + 2] = "cooldown"
          /\ i + 3 <= Len(sched.trace) => sched.trace[i + 3] = "sleep"

\* C17: the first thing the scheduler does is a cycle; a cycle is called
\* only when the one before has ended, and between the end of one and the
\* call of the next there is exactly one whole interval sleep.
C17_CycleThenSleepAlternate ==
    /\ sched.pc # "start" => (sched.trace # <<>> /\ sched.trace[1] = "cycle")
    /\ \A i, j \in At("cycle") :
          (i < j /\ \A m \in At("cycle") : ~(i < m /\ m < j)) =>
              /\ \E e \in At("end") \cup At("raise") : i < e /\ e < j
              /\ Cardinality({m \in At("sleep") : i < m /\ m < j}) = 1
              /\ \A e \in At("end") \cup At("raise") :
                    \A m \in At("sleep") :
                        (i < e /\ e < j /\ i < m /\ m < j) => e < m
    /\ sched.pc \in InCycle =>
          /\ At("cycle") # {}
          /\ \A e \in At("end") \cup At("raise") :
                \E c \in At("cycle") : e < c

\* three cycles have been called, one of them ended with an exception
C17_Witness ==
    /\ Cardinality(At("cycle")) = 3
    /\ At("raise") # {}
    /\ sched.pc = "running"

\* C18: run_scheduler ends only on an interrupt, and always through the
\* handled exit that prints 'Scheduler stopped by user'.
C18_EndsOnlyByHandledInterrupt ==
    Terminated =>
        /\ sched.exit = "user"
        /\ sched.pc = "stopped"
        /\ sched.trace[Len(sched.trace)] = "stopped"

(* ------------------------- the jackpot snapshots ----------------------- *)
\* the jackpot part of a cycle has run to its end
JackpotsDone == pc = "cycle done" /\ jsaved \in {"True", "False"}

\* the snapshot of lottery k holds the amount and cash value of entry e
Holds(k, e) ==
    /\ jackpotFile.readable
    /\ jackpotFile.entries[k].amount = e.amount
    /\ jackpotFile.entries[k].cashValue = e.cashValue

\* C21: after a cycle, every lottery whose jackpot fetch succeeded has
\* exactly the newly fetched amount and cashValue stored as its one
\* snapshot, and the first source's values are the ones stored whenever the
\* first source yielded an amount.
C21_SnapshotOverwritten ==
    JackpotsDone =>
        \A k \in Lotteries :
            /\ jackpots.fetched[k] # NoKey => Holds(k, jackpots.fetched[k])
            /\ (k \in Scraped
                /\ PrimaryJackpot(k, jackpots.answers[k].primary) # NoKey)
               => Holds(k, PrimaryJackpot(k, jackpots.answers[k].primary))

\* the same, for the cycles in which jackpots.json could be loaded
OverwrittenWhenLoaded ==
    (JackpotsDone /\ jsaved = "True") =>
        \A k \in Lotteries :
            /\ jackpots.fetched[k] # NoKey => Holds(k, jackpots.fetched[k])
            /\ (k \in Scraped
                /\ PrimaryJackpot(k, jackpots.answers[k].primary) # NoKey)
               => Holds(k, PrimaryJackpot(k, jackpots.answers[k].primary))

(* --------------------------- cycles complete --------------------------- *)
\* C22: every update cycle eventually completes: whatever a source does,
\* slow or silent, a cycle that has started reaches the scheduler's next
\* sleep.
C22_CycleCompletes == (http.pc # "sleeping") ~> (http.pc = "sleeping")

\* the same for the cycles in which no source is slow
CompletesUnlessSlow ==
    (http.pc # "sleeping") ~> (http.pc = "sleeping" \/ http.mode = "trickles")

(* ----------------------- what save_draw leaves alone -------------------- *)
\* the reasons for which save_draw returns without inserting
NoInsertKinds == {"NoDraw", "AlreadyHave", "DuplicateNumbers", "SaveError"}

\* C23: the save_draw call of a lottery's block leaves the store of every
\* other lottery as it was, and when it does not insert (no draw, date
\* already present, duplicate numbers, store not loadable) it leaves the
\* lottery's own store, draws and lastUpdated, as it was.
C23_NoInsertNoChange ==
    [][\A k \in Lotteries :
          pc = k =>
             /\ \A j \in Lotteries \ {k} : store'[j] = store[j]
             /\ (results'[k].done /\ ~results'[k].saved) =>
                   /\ results'[k].msg.kind \in NoInsertKinds
                   /\ store'[k] = store[k]]_vars

\* a cycle has met three of the reasons: no draw, a store that cannot be
\* loaded or a result the store holds under another date, and the store
\* of the lottery concerned is the one the call found
C23_Witness ==
    /\ pc = "idle"
    /\ cycle = MaxCycles
    /\ results[live].msg.kind \in {"SaveError", "DuplicateNumbers"}
    /\ store[live] = results[live].before
    /\ \E k \in Lotteries \ {live} : results[k].msg.kind = "NoDraw"

\* C24: save_jackpots keeps the stored amount, cashValue, schedule and
\* nextDraw of every lottery that is absent from the fetched jackpots, and
\* only a fetched lottery gets a new nextDraw.
C24_UnfetchedKept ==
    JackpotsDone =>
        \A k \in Lotteries :
            /\ jackpots.fetched[k] = NoKey =>
                  jackpotFile.entries[k] = jackpots.before.entries[k]
            /\ jackpotFile.entries[k].nextDraw
                   # jackpots.before.entries[k].nextDraw
               => jackpots.fetched[k] # NoKey

\* save_jackpots has written the file: a lottery that was fetched has a new
\* amount and a new nextDraw, and two that were not have their old entries
C24_Witness ==
    /\ JackpotsDone
    /\ jsaved = "True"
    /\ \E j \in Scraped :
          /\ jackpots.fetched[j] # NoKey
          /\ jackpotFile.entries[j].amount = jackpots.fetched[j].amount
          /\ jackpotFile.entries[j].nextDraw > now
          /\ \A k \in Scraped \ {j} :
                /\ jackpots.fetched[k] = NoKey
                /\ jackpotFile.entries[k] = OldSnapshot(k)

(* ------------------------ the scheduler's fallback --------------------- *)
\* the last thing that has happened in the scheduler
LastEvent(trace) == IF trace = <<>> THEN "none" ELSE trace[Len(trace)]

\* this step prints that a script has failed
ScriptFailed ==
    /\ sched'.trace # sched.trace
    /\ LastEvent(sched'.trace) \in {"dual error", "fallback error", "end"}
    /\ \E n \in 1..Len(sched'.trace) :
          /\ n > Len(sched.trace)
          /\ sched'.trace[n] \in {"dual error", "fallback error"}

RECURSIVE Count(_, _)
Count(e, trace) ==
    IF trace = <<>> THEN 0
    ELSE (IF Head(trace) = e THEN 1 ELSE 0) + Count(e, Tail(trace))

\* C26: run_continuous starts with a run, not with a sleep; with a cap
\* max_runs = N >= 1 it never runs more than N cycles and, when it returns
\* without having been interrupted, it has run N cycles and has not slept
\* after the last one; without a cap it ends only on an interrupt.
C26_CapEndsTheLoop ==
    /\ (hunter.trace # <<>> /\ hunter.max_runs # 0) => hunter.trace[1] = "run"
    /\ hunter.max_runs >= 1 =>
          /\ Count("run", hunter.trace) <= hunter.max_runs
          /\ (hunter.pc = "returned" /\ hunter.exit = "none") =>
                /\ Count("run", hunter.trace) = hunter.max_runs
                /\ LastEvent(hunter.trace) = "end"
    /\ (hunter.max_runs = NoCap /\ hunter.pc \in {"returned", "crashed"}) =>
          hunter.exit \in {"user", "interrupt"}

\* the same, as long as no run has raised
CapEndsTheLoopUnlessError ==
    Count("error", hunter.trace) = 0 => C26_CapEndsTheLoop

(* ------------------- which record verify_and_get_best returns ---------- *)
\* the position of the first candidate that is not a failure
FirstValid(c) == CHOOSE i \in ValidIn(c) : \A j \in ValidIn(c) : i <= j

\* the candidates after the first valid one that have its numbers
AgreeWithFirst(c) ==
    {j \in ValidIn(c) \ {FirstValid(c)} : SameNumbers(c[FirstValid(c)], c[j])}

\* C27: verify_and_get_best returns no record exactly when every candidate
\* failed, and otherwise one of the candidates with its date, main, bonus
\* and source unchanged; when it finds agreement (the first valid candidate
\* and a later one have the same numbers) the record is the first valid
\* candidate, and so is the date, whatever date the agreeing source gives.
C27_ReturnsFirstOnAgreement ==
    pc = "verified" =>
        /\ verdict.draw = None <=> ValidIn(candidates) = {}
        /\ verdict.draw # None =>
              \E i \in ValidIn(candidates) : verdict.draw = candidates[i]
        /\ ValidIn(candidates) # {} =>
              /\ verdict.kind = "VERIFIED" <=> AgreeWithFirst(candidates) # {}
              /\ verdict.kind = "VERIFIED" =>
                    verdict.draw = candidates[FirstValid(candidates)]

\* two sources agree on the numbers and not on the date, the later date
\* being that of the second one; the record returned has the first one's
C27_Witness ==
    /\ pc = "verified"
    /\ verdict.kind = "VERIFIED"
    /\ \E j \in AgreeWithFirst(candidates) :
          candidates[j].date > candidates[FirstValid(candidates)].date
    /\ verdict.draw.date = candidates[FirstValid(candidates)].date
    /\ verdict.draw.source = candidates[FirstValid(candidates)].source

\* candidate i is the one the ranks pick: no valid candidate has a smaller
\* rank, and none of the same rank stands earlier in the list
RankedFirst(c, i) ==
    /\ i \in ValidIn(c)
    /\ \A j \in ValidIn(c) \ {i} : HigherPriority(c, i, j)

\* C28: when the first valid candidate agrees with no other,
\* verify_and_get_best returns the candidate of smallest rank (NY_OpenData
\* 1, CT_RSS 2, Iowa 3, others 99) and, among candidates of that rank, the
\* one earliest in the list; the verdict is fixed by the list alone.
C28_SmallestRankEarliestWins ==
    (pc = "verified" /\ ValidIn(candidates) # {}
                     /\ AgreeWithFirst(candidates) = {}) =>
        \E i \in ValidIn(candidates) :
            /\ RankedFirst(candidates, i)
            /\ verdict.draw = candidates[i]
            /\ verdict.names = <<candidates[i].source>>
            /\ verdict.kind = IF Cardinality(ValidIn(candidates)) = 1
                              THEN "SINGLE" ELSE "MISMATCH"

\* two Lotto America sources of rank 99 disagree: the record returned is
\* that of the one listed first
C28_Witness ==
    /\ pc = "verified"
    /\ lottery = "LA"
    /\ ValidIn(candidates) = {3, 4}
    /\ Rank(candidates[3]) = Rank(candidates[4])
    /\ verdict.kind = "MISMATCH"
    /\ verdict.draw = candidates[3]

(* ----------------------------- the next draw --------------------------- *)
\* the draws of lottery k that lie after the time t, two weeks ahead
DrawsAfter(k, t) ==
    {DrawTime(k, d) : d \in {e \in DayOf(t)..(DayOf(t) + 14) :
                                /\ Weekday(e) \in JackpotDays(k)
                                /\ DrawTime(k, e) > t}}

\* the earliest of them
EarliestDraw(k, t) ==
    CHOOSE x \in DrawsAfter(k, t) : \A y \in DrawsAfter(k, t) : x <= y

\* C29: for every lottery whose jackpot save_jackpots has saved, nextDraw
\* is the earliest draw of its schedule that is strictly later than now;
\* the search over the offsets 0..7 finds one for every lottery and every
\* time; and get_next_draw_date, in the file get_jackpots.py writes, gives
\* the same instant.
C29_NextDrawIsEarliestLater ==
    /\ \A k \in Lotteries : DrawOffsets(k, now) # {}
    /\ \A k \in Lotteries :
          DateOffsets(JackpotDays(k), DrawMinute(k), now) # {}
    /\ (pc = "cycle done" /\ jsaved = "True") =>
          \A k \in Lotteries :
              jackpots.fetched[k] # NoKey =>
                  /\ jackpotFile.entries[k].nextDraw = EarliestDraw(k, now)
                  /\ jackpotFile.entries[k].nextDraw
                        = get_next_draw_date(JackpotDays(k), DrawMinute(k),
                                             now)
    /\ (pc = "cycle done" /\ jsaved = "script") =>
          \A k \in Lotteries :
              /\ jackpotFile.entries[k].nextDraw = EarliestDraw(k, now)
              /\ jackpotFile.entries[k].nextDraw
                    = NextDraw(k, now, jackpots.before.entries[k].nextDraw)

\* save_jackpots has run in the minute of the Powerball draw of a
\* Saturday, half a minute after the draw: the next draw is Monday's
C29_Witness ==
    /\ pc = "cycle done"
    /\ jsaved = "True"
    /\ now = 12 * PerDay + DrawMinute("PB") * PerMinute + 1
    /\ jackpots.fetched["PB"] # NoKey
    /\ jackpotFile.entries["PB"].nextDraw = DrawTime("PB", 14)

(* ----------------------- the two inserts compared ---------------------- *)
\* date, main and bonus of every stored draw, in the order of the file
DrawsOf(data) ==
    [i \in 1..Len(data.draws) |->
        <<data.draws[i].date, data.draws[i].main, data.draws[i].bonus>>]

\* why an insert was rejected
Reason(msg) ==
    CASE msg.kind \in {"NoData", "NoDraw"} -> "no draw"
      [] msg.kind \in {"Error", "SaveError"} -> "error"
      [] msg.kind = "AlreadyHave" -> "date present"
      [] msg.kind = "DuplicateNumbers" -> "duplicate numbers"
      [] OTHER -> "none"

\* the two outcomes are the same decision for the same reason and leave the
\* same draws
SameOutcome(a, b) ==
    /\ a.saved = b.saved
    /\ Reason(a.msg) = Reason(b.msg)
    /\ a.msg.kind \in {"AlreadyHave", "DuplicateNumbers"} => a.msg = b.msg
    /\ Readable(a.data) = Readable(b.data)
    /\ DrawsOf(a.data) = DrawsOf(b.data)

\* the insert of the last step has finished
Inserted == pc \in {"updater done", "dual done"}

\* C30: on the same file and the same draw, update_lottery_data and
\* save_draw accept or reject alike, reject for the same reason, and leave
\* the same draws in the same order; the file the insert that ran has left
\* is that one.
C30_InsertsAgree ==
    Inserted =>
        LET r == results[lottery]
            a == update_lottery_data(r.before, r.draw, clock - 1)
            b == save_draw(r.before, r.draw, clock - 1)
            done == IF pc = "updater done" THEN a ELSE b
        IN  /\ SameOutcome(a, b)
            /\ r.saved = done.saved
            /\ r.msg = done.msg
            /\ DrawsOf(store[lottery]) = DrawsOf(done.data)

\* update_lottery_data has put a draw in front of a store that holds draws
C30_Witness ==
    /\ pc = "updater done"
    /\ results[lottery].saved
    /\ Len(results[lottery].before.draws) = 2
    /\ Len(store[lottery].draws) = 3
    /\ store[lottery].draws[1].date = results[lottery].draw.date

====
